---------------------------- MODULE Spec2Model ----------------------------
(***************************************************************************)
(* Model of the chocobo breeding calculator: the pairing score calculator  *)
(* evaluateBreedingPair (utils/breeding.ts) and the store operation        *)
(* findOptimalBreedingPair (store/chocoboStore.ts).                        *)
(*                                                                         *)
(* Operator parameters never carry the name of a variable (the mode        *)
(* parameter superSprint of the source is written sprint), so that TLC     *)
(* evaluates the constant table ExpectedRankTable once.                    *)
(*                                                                         *)
(* Numbers.  evaluateBreedingPair returns a JavaScript number.  The model  *)
(* keeps it exact: a finite score is a record [kind |-> "finite",          *)
(* limbs |-> l] where l is a little-endian sequence of NumLimbs base-1024  *)
(* digits of  score * 1024^9  (nine base-1024 fractional digits, which is  *)
(* exactly what (i/1024)^siblings needs for siblings <= 9).  The other     *)
(* kinds are "NaN" and "-Infinity".  IEEE rounding of Math.pow is not      *)
(* modelled; the exact value differs from the double by less than 1e-9.    *)
(***************************************************************************)
EXTENDS Integers, Sequences, FiniteSets, TLC

(***************************************************************************)
(* Program constants                                                       *)
(***************************************************************************)
TotalSpace == 1024
MaxSiblings == 9
NumStats == 5
RankedMaxStat == 5
MinStat == 1
MaxCoveringsLeft == 10

\* base of one limb and number of limbs of a fixed-point score
LimbBase == TotalSpace
FracLimbs == MaxSiblings
NumLimbs == FracLimbs + 1

(***************************************************************************)
(* Exact fixed-point arithmetic on limb sequences                          *)
(***************************************************************************)
ZeroLimbs == <<0, 0, 0, 0, 0, 0, 0, 0, 0, 0>>
\* 1.0 as a fixed-point number
OneLimbs == <<0, 0, 0, 0, 0, 0, 0, 0, 0, 1>>

\* x + y, limb by limb from the least significant one, with carry
RECURSIVE AddFrom(_, _, _, _)
AddFrom(x, y, j, carry) ==
    IF j > NumLimbs THEN <<>>
    ELSE LET t == x[j] + y[j] + carry
         IN  <<t % LimbBase>> \o AddFrom(x, y, j + 1, t \div LimbBase)

\* x - y for x >= y, with borrow (a carry of -1)
RECURSIVE SubFrom(_, _, _, _)
SubFrom(x, y, j, carry) ==
    IF j > NumLimbs THEN <<>>
    ELSE LET t == x[j] - y[j] + carry
         IN  <<t % LimbBase>> \o SubFrom(x, y, j + 1, t \div LimbBase)

\* x * k for a whole number k in 0..1024
RECURSIVE MulFrom(_, _, _, _)
MulFrom(x, k, j, carry) ==
    IF j > NumLimbs THEN <<>>
    ELSE LET t == x[j] * k + carry
         IN  <<t % LimbBase>> \o MulFrom(x, k, j + 1, t \div LimbBase)

AddLimbs(x, y) == AddFrom(x, y, 1, 0)
SubLimbs(x, y) == SubFrom(x, y, 1, 0)
MulSmall(x, k) == MulFrom(x, k, 1, 0)
\* exact division by 1024 of a multiple of 1024
ShiftDown(x) == Tail(x) \o <<0>>

RECURSIVE LimbsLessFrom(_, _, _)
LimbsLessFrom(x, y, j) ==
    IF j = 0 THEN FALSE
    ELSE IF x[j] # y[j] THEN x[j] < y[j]
    ELSE LimbsLessFrom(x, y, j - 1)

LimbsLess(x, y) == LimbsLessFrom(x, y, NumLimbs)

Finite(l) == [kind |-> "finite", limbs |-> l]
NaN == [kind |-> "NaN", limbs |-> ZeroLimbs]
NegInfinity == [kind |-> "-Infinity", limbs |-> ZeroLimbs]

\* mutant of GreaterThan: a >= b
GreaterThan_OrEqual(a, b) ==
    IF a.kind = "NaN" \/ b.kind = "NaN" THEN FALSE
    ELSE IF b.kind = "-Infinity" THEN TRUE
    ELSE IF a.kind = "-Infinity" THEN FALSE
    ELSE ~LimbsLess(a.limbs, b.limbs)

\* JavaScript a > b on the modelled numbers
GreaterThan(a, b) ==
    IF a.kind = "NaN" \/ b.kind = "NaN" THEN FALSE
    ELSE IF a.kind = "-Infinity" THEN FALSE
    ELSE IF b.kind = "-Infinity" THEN TRUE
    ELSE LimbsLess(b.limbs, a.limbs)

Min2(a, b) == IF a < b THEN a ELSE b

(***************************************************************************)
(* cartesianProduct, breeding.ts                                           *)
(***************************************************************************)
\* mutant of FlatMapCombos: the loop stops one item early
RECURSIVE FlatMapCombos_DropLast(_, _, _)
FlatMapCombos_DropLast(first, restProduct, k) ==
    IF k >= Len(first) THEN <<>>
    ELSE [c \in 1..Len(restProduct) |-> <<first[k]>> \o restProduct[c]]
         \o FlatMapCombos_DropLast(first, restProduct, k + 1)

RECURSIVE FlatMapCombos(_, _, _)
\* first.flatMap(item => restProduct.map(combo => [item, ...combo]))
FlatMapCombos(first, restProduct, k) ==
    IF k > Len(first) THEN <<>>
    ELSE [c \in 1..Len(restProduct) |-> <<first[k]>> \o restProduct[c]]
         \o FlatMapCombos(first, restProduct, k + 1)

RECURSIVE cartesianProduct(_)
cartesianProduct(arrays) ==
    IF Len(arrays) = 0 THEN << <<>> >>
    ELSE IF Len(arrays) = 1
         THEN [k \in 1..Len(arrays[1]) |-> <<arrays[1][k]>>]
    ELSE FlatMapCombos(Head(arrays), cartesianProduct(Tail(arrays)), 1)

(***************************************************************************)
(* createChocoboComparator, breeding.ts.  The JavaScript comparator        *)
(* returns differences of averages (multiples of 1/2); the operator        *)
(* returns twice the JavaScript value in every branch, so it is an integer *)
(* with the same sign.                                                     *)
(***************************************************************************)
countWithFive(stats) ==
    Cardinality({k \in 1..Len(stats) :
                    stats[k][1] = RankedMaxStat \/ stats[k][2] = RankedMaxStat})

countLocked(stats) ==
    Cardinality({k \in 1..Len(stats) :
                    stats[k][1] = RankedMaxStat /\ stats[k][2] = RankedMaxStat})

\* twice (father + mother) / 2; index is the 0-based JavaScript index
getStatAvg(stats, index) == stats[index + 1][1] + stats[index + 1][2]

calcFormula3(stats) ==
    getStatAvg(stats, 0) + getStatAvg(stats, 3)
        - getStatAvg(stats, 4) - getStatAvg(stats, 1)

calcFormula4(stats) ==
    getStatAvg(stats, 3) + getStatAvg(stats, 2)
        - getStatAvg(stats, 4) - getStatAvg(stats, 1)

\* mutant of createChocoboComparator: a full tie is reported as "a is better"
createChocoboComparator_TieIsBetter(sprint, a, b) ==
    LET statsA == a.stats
        statsB == b.stats
        aWithFive == countWithFive(statsA)
        bWithFive == countWithFive(statsB)
        aLocked == countLocked(statsA)
        bLocked == countLocked(statsB)
        last == IF ~sprint
                THEN IF calcFormula3(statsA) # calcFormula3(statsB)
                     THEN calcFormula3(statsA) - calcFormula3(statsB)
                     ELSE getStatAvg(statsA, 2) - getStatAvg(statsB, 2)
                ELSE IF calcFormula4(statsA) # calcFormula4(statsB)
                     THEN calcFormula4(statsA) - calcFormula4(statsB)
                     ELSE getStatAvg(statsA, 0) - getStatAvg(statsB, 0)
    IN  IF aWithFive # bWithFive THEN 2 * (aWithFive - bWithFive)
        ELSE IF aLocked # bLocked THEN 2 * (aLocked - bLocked)
        ELSE IF last = 0 THEN 2 ELSE last

\* mutant of createChocoboComparator: criterion 2 is applied before criterion 1
createChocoboComparator_LockedFirst(sprint, a, b) ==
    LET statsA == a.stats
        statsB == b.stats
        aWithFive == countWithFive(statsA)
        bWithFive == countWithFive(statsB)
        aLocked == countLocked(statsA)
        bLocked == countLocked(statsB)
    IN  IF aLocked # bLocked THEN 2 * (aLocked - bLocked)
        ELSE IF aWithFive # bWithFive THEN 2 * (aWithFive - bWithFive)
        ELSE IF ~sprint
             THEN IF calcFormula3(statsA) # calcFormula3(statsB)
                  THEN calcFormula3(statsA) - calcFormula3(statsB)
                  ELSE getStatAvg(statsA, 2) - getStatAvg(statsB, 2)
             ELSE IF calcFormula4(statsA) # calcFormula4(statsB)
                  THEN calcFormula4(statsA) - calcFormula4(statsB)
                  ELSE getStatAvg(statsA, 0) - getStatAvg(statsB, 0)

createChocoboComparator(sprint, a, b) ==
    LET statsA == a.stats
        statsB == b.stats
        aWithFive == countWithFive(statsA)
        bWithFive == countWithFive(statsB)
        aLocked == countLocked(statsA)
        bLocked == countLocked(statsB)
    IN  IF aWithFive # bWithFive THEN 2 * (aWithFive - bWithFive)
        ELSE IF aLocked # bLocked THEN 2 * (aLocked - bLocked)
        ELSE IF ~sprint
             THEN IF calcFormula3(statsA) # calcFormula3(statsB)
                  THEN calcFormula3(statsA) - calcFormula3(statsB)
                  ELSE getStatAvg(statsA, 2) - getStatAvg(statsB, 2)
             ELSE IF calcFormula4(statsA) # calcFormula4(statsB)
                  THEN calcFormula4(statsA) - calcFormula4(statsB)
                  ELSE getStatAvg(statsA, 0) - getStatAvg(statsB, 0)

(***************************************************************************)
(* Array.prototype.sort with a comparator: a stable sort (ECMAScript 2019),*)
(* modelled as a stable merge sort.  The merge splits at the middle of the *)
(* longer run and finds the split point of the other run by binary search, *)
(* which gives the same stable result as a linear merge.                   *)
(***************************************************************************)
\* number of leading elements e of the sorted run xs[lo..hi] that go before
\* pivot: compare(e, pivot) < 0 when strict, compare(e, pivot) <= 0 otherwise
RECURSIVE CountBefore(_, _, _, _, _, _)
CountBefore(sprint, xs, pivot, strict, lo, hi) ==
    IF lo > hi THEN lo - 1
    ELSE LET mid == (lo + hi) \div 2
             c == createChocoboComparator(sprint, xs[mid], pivot)
         IN  IF c < 0 \/ (~strict /\ c = 0)
             THEN CountBefore(sprint, xs, pivot, strict, mid + 1, hi)
             ELSE CountBefore(sprint, xs, pivot, strict, lo, mid - 1)

RECURSIVE Merge(_, _, _)
Merge(sprint, left, right) ==
    IF Len(left) = 0 THEN right
    ELSE IF Len(right) = 0 THEN left
    ELSE IF Len(left) >= Len(right)
         THEN LET m == (Len(left) + 1) \div 2
                  k == CountBefore(sprint, right, left[m], TRUE,
                                   1, Len(right))
              IN  Merge(sprint, SubSeq(left, 1, m - 1), SubSeq(right, 1, k))
                  \o <<left[m]>>
                  \o Merge(sprint, SubSeq(left, m + 1, Len(left)),
                           SubSeq(right, k + 1, Len(right)))
         ELSE LET m == (Len(right) + 1) \div 2
                  k == CountBefore(sprint, left, right[m], FALSE,
                                   1, Len(left))
              IN  Merge(sprint, SubSeq(left, 1, k), SubSeq(right, 1, m - 1))
                  \o <<right[m]>>
                  \o Merge(sprint, SubSeq(left, k + 1, Len(left)),
                           SubSeq(right, m + 1, Len(right)))

RECURSIVE SortChildren(_, _)
SortChildren(sprint, xs) ==
    IF Len(xs) <= 1 THEN xs
    ELSE LET mid == Len(xs) \div 2
         IN  Merge(sprint,
                   SortChildren(sprint, SubSeq(xs, 1, mid)),
                   SortChildren(sprint, SubSeq(xs, mid + 1, Len(xs))))

(***************************************************************************)
(* evaluateBreedingPair, breeding.ts                                       *)
(***************************************************************************)
\* parent1Stats / parent2Stats: [father, mother] for each of the 5 stats
ParentStats(parent) ==
    << <<parent.fatherMaxSpeed, parent.motherMaxSpeed>>,
       <<parent.fatherAcceleration, parent.motherAcceleration>>,
       <<parent.fatherEndurance, parent.motherEndurance>>,
       <<parent.fatherStamina, parent.motherStamina>>,
       <<parent.fatherCunning, parent.motherCunning>> >>

\* mutant of StatOptionsOf: parent 2's allele varies slowest
StatOptionsOf_P2Outer(p1Genes, p2Genes) ==
    << <<p1Genes[1], p2Genes[1]>>,
       <<p1Genes[2], p2Genes[1]>>,
       <<p1Genes[1], p2Genes[2]>>,
       <<p1Genes[2], p2Genes[2]>> >>

\* the four options of one stat: (P1_F, P2_F), (P1_F, P2_M), (P1_M, P2_F), (P1_M, P2_M)
StatOptionsOf(p1Genes, p2Genes) ==
    << <<p1Genes[1], p2Genes[1]>>,
       <<p1Genes[1], p2Genes[2]>>,
       <<p1Genes[2], p2Genes[1]>>,
       <<p1Genes[2], p2Genes[2]>> >>

statOptions(parent1, parent2) ==
    [i \in 1..NumStats |->
        StatOptionsOf(ParentStats(parent1)[i], ParentStats(parent2)[i])]

allGenotypeCombos(parent1, parent2) ==
    cartesianProduct(statOptions(parent1, parent2))

\* children before the sort: one ChocoboGenotype object per combination
unsortedChildren(parent1, parent2) ==
    LET combos == allGenotypeCombos(parent1, parent2)
    IN  [k \in 1..Len(combos) |-> [stats |-> combos[k]]]

\* children after children.sort(createChocoboComparator(superSprint))
sortedChildren(parent1, parent2, sprint) ==
    SortChildren(sprint, unsortedChildren(parent1, parent2))

\* mutant of siblingsOf: the attempt being planned is counted as used up
siblingsOf_OneUsedUp(parent1, parent2) ==
    Min2(MaxSiblings,
         Min2(parent1.coveringsLeft, parent2.coveringsLeft) - 1)

\* mutant of siblingsOf: at least one offspring is assumed
siblingsOf_AtLeastOne(parent1, parent2) ==
    LET least == Min2(MaxSiblings,
                      Min2(parent1.coveringsLeft, parent2.coveringsLeft))
    IN  IF least < 1 THEN 1 ELSE least

\* mutant of siblingsOf: the second parent's coveringsLeft is ignored
siblingsOf_FirstParentOnly(parent1, parent2) ==
    Min2(MaxSiblings, parent1.coveringsLeft)

\* Math.min(9, parent1.coveringsLeft, parent2.coveringsLeft)
siblingsOf(parent1, parent2) ==
    Min2(MaxSiblings, Min2(parent1.coveringsLeft, parent2.coveringsLeft))

\* Math.pow(n / 1024, s) for n in 0..1024 and s in 0..9, as a fixed-point
\* number: multiply s times by n / 1024, starting from 1 (so 0^0 is 1).
RECURSIVE PowCdf(_, _)
PowCdf(n, s) ==
    IF s = 0 THEN OneLimbs
    ELSE MulSmall(ShiftDown(PowCdf(n, s - 1)), n)

\* probIsWinner = Math.pow(cdfCurrent, siblings) - Math.pow(cdfPrev, siblings)
probIsWinner(i, siblings) ==
    SubLimbs(PowCdf(i + 1, siblings), PowCdf(i, siblings))

\* mutant of rankTerm: ranks count down from the best genotype
rankTerm_Descending(i, siblings) ==
    MulSmall(probIsWinner(i, siblings), TotalSpace - 1 - i)

\* mutant of rankTerm: ranks are 1-based
rankTerm_OneBased(i, siblings) ==
    MulSmall(probIsWinner(i, siblings), i + 1)

\* rankValue * probIsWinner
rankTerm(i, siblings) == MulSmall(probIsWinner(i, siblings), i)

\* the loop  for (i = 0; i < 1024; i++) expectedRankSum += rankValue * probIsWinner
\* over the iterations lo..hi (exact addition is associative, so the sum is
\* split in halves to keep the recursion shallow)
RECURSIVE SumRankTerms(_, _, _)
SumRankTerms(lo, hi, siblings) ==
    IF lo = hi THEN rankTerm(lo, siblings)
    ELSE LET mid == (lo + hi) \div 2
         IN  AddLimbs(SumRankTerms(lo, mid, siblings),
                      SumRankTerms(mid + 1, hi, siblings))

\* the value of the loop for every siblings value 0..9, computed once
ExpectedRankTable ==
    [s \in 0..MaxSiblings |-> SumRankTerms(0, TotalSpace - 1, s)]

\* expectedRankSum after the loop.  With siblings < 0 the first iteration
\* computes Math.pow(0, siblings) = Infinity, so probIsWinner is -Infinity
\* and 0 * -Infinity is NaN, which every later addition keeps.
expectedRankSum(siblings) ==
    IF siblings < 0 THEN NaN
    ELSE Finite(ExpectedRankTable[siblings])

\* mutant of evaluateBreedingPair: parents whose stats are all at the ranked
\* maximum score the highest rank, so the stats enter the result
evaluateBreedingPair_LockedScoreCeiling(parent1, parent2, sprint) ==
    LET statFields == {"fatherMaxSpeed", "fatherAcceleration",
                       "fatherEndurance", "fatherStamina", "fatherCunning",
                       "motherMaxSpeed", "motherAcceleration",
                       "motherEndurance", "motherStamina", "motherCunning"}
        siblings == siblingsOf(parent1, parent2)
    IN  IF /\ siblings >= 1
           /\ \A f \in statFields : parent1[f] = RankedMaxStat
           /\ \A f \in statFields : parent2[f] = RankedMaxStat
        THEN Finite(MulSmall(OneLimbs, TotalSpace - 1))
        ELSE expectedRankSum(siblings)

evaluateBreedingPair(parent1, parent2, sprint) ==
    LET children == sortedChildren(parent1, parent2, sprint)
        siblings == siblingsOf(parent1, parent2)
    IN  expectedRankSum(siblings)

(***************************************************************************)
(* Inputs of the pure-function specifications                              *)
(***************************************************************************)
Stats(fMS, fAcc, fEnd, fSta, fCun, mMS, mAcc, mEnd, mSta, mCun) ==
    [fatherMaxSpeed |-> fMS, fatherAcceleration |-> fAcc,
     fatherEndurance |-> fEnd, fatherStamina |-> fSta, fatherCunning |-> fCun,
     motherMaxSpeed |-> mMS, motherAcceleration |-> mAcc,
     motherEndurance |-> mEnd, motherStamina |-> mSta, motherCunning |-> mCun]

UniformStats(v) == Stats(v, v, v, v, v, v, v, v, v, v)

\* stat records taken from the test-suite of evaluateBreedingPair
StatProfiles ==
    << UniformStats(RankedMaxStat),
       UniformStats(MinStat),
       UniformStats(4),
       Stats(5, 4, 3, 5, 2, 4, 5, 4, 3, 3),
       Stats(5, 3, 5, 4, 2, 4, 4, 3, 5, 3),
       Stats(1, 2, 1, 2, 1, 2, 1, 2, 1, 2) >>

\* a ChocoboParentDataParsed record
ParentData(gender, stats, coveringsLeft) ==
    [gender |-> gender, coveringsLeft |-> coveringsLeft,
     fatherMaxSpeed |-> stats.fatherMaxSpeed,
     fatherAcceleration |-> stats.fatherAcceleration,
     fatherEndurance |-> stats.fatherEndurance,
     fatherStamina |-> stats.fatherStamina,
     fatherCunning |-> stats.fatherCunning,
     motherMaxSpeed |-> stats.motherMaxSpeed,
     motherAcceleration |-> stats.motherAcceleration,
     motherEndurance |-> stats.motherEndurance,
     motherStamina |-> stats.motherStamina,
     motherCunning |-> stats.motherCunning]

\* coveringsLeft of createDefaultChocobo
DefaultCoveringsLeft == 9

\* how far below 0 the coveringsLeft arguments of a direct call range
MaxNegativeCoverings == 1

CoveringsArgs == (0 - MaxNegativeCoverings)..MaxCoveringsLeft

(***************************************************************************)
(* State                                                                   *)
(***************************************************************************)
VARIABLES
    argParent1,     \* first argument of a call of evaluateBreedingPair
    argParent2,     \* second argument
    argSprint,      \* third argument (superSprint)
    pc,             \* "called" before a call returns, "returned" after;
                    \* in the store: the handler that ran last ("idle" if none)
    result,         \* the returned expected rank
    allCombos,      \* local allGenotypeCombos / children before the sort
    children,       \* local children after the sort
    fnArgs,         \* arguments of a call of one of the other functions
    fnResult,       \* what that call returned
    chocobos,       \* store: the collection, a sequence of Chocobo records
    optimalPair,    \* store: <<>> for null, else <<[father, mother, score]>>
    statFilters,    \* store: the active filters
    isEditMode,     \* store: edit mode flag
    frozenFilteredIds,  \* store: ids visible when edit mode was entered
    superSprint,    \* store: mode flag
    sortType,       \* store: "quality", "locked" or "fiveStars"
    sortOrder,      \* store: "asc" or "desc"
    frozenMaleSortOrder,    \* store: ids of the sorted males at edit entry
    frozenFemaleSortOrder,  \* store: ids of the sorted females at edit entry
    pendingChangesWhileEditing, \* store: filters or sort changed while editing
    clock           \* the instant new Date() returned last, in milliseconds
                    \* after the start of ClockDay

callVars == <<argParent1, argParent2, argSprint, pc, result, allCombos, children,
              fnArgs, fnResult>>
sortVars == <<sortType, sortOrder>>
editVars == <<isEditMode, frozenMaleSortOrder, frozenFemaleSortOrder,
              frozenFilteredIds, pendingChangesWhileEditing>>
storeVars == <<chocobos, optimalPair, statFilters, superSprint, sortVars,
               editVars>>
vars == <<callVars, storeVars, clock>>

\* the store as constructed, before persist loads a saved state
StoreConstructed ==
    /\ chocobos = <<>>
    /\ optimalPair = <<>>
    /\ statFilters = <<>>
    /\ sortType = "quality"
    /\ sortOrder = "desc"
    /\ isEditMode = FALSE
    /\ frozenMaleSortOrder = <<>>
    /\ frozenFemaleSortOrder = <<>>
    /\ frozenFilteredIds = <<>>
    /\ pendingChangesWhileEditing = FALSE
    /\ superSprint = FALSE

\* no call of evaluateBreedingPair from outside the store is in progress
NoDirectCall ==
    /\ argParent1 = ParentData("male", UniformStats(MinStat), DefaultCoveringsLeft)
    /\ argParent2 = ParentData("female", UniformStats(MinStat), DefaultCoveringsLeft)
    /\ argSprint = FALSE
    /\ pc = "idle"
    /\ result = NaN
    /\ allCombos = <<>>
    /\ children = <<>>
    /\ fnArgs = <<>>
    /\ fnResult = <<>>

(***************************************************************************)
(* SpecEval: calls of evaluateBreedingPair, observing the return value     *)
(***************************************************************************)
EvalInit ==
    /\ \E a \in 1..Len(StatProfiles), c \in CoveringsArgs :
           argParent1 = ParentData("male", StatProfiles[a], c)
    /\ \E b \in 1..Len(StatProfiles), c \in CoveringsArgs :
           argParent2 = ParentData("female", StatProfiles[b], c)
    /\ argSprint \in BOOLEAN
    /\ pc = "called"
    /\ result = NaN
    /\ allCombos = <<>>
    /\ children = <<>>
    /\ fnArgs = <<>>
    /\ fnResult = <<>>
    /\ StoreConstructed
    /\ clock = 0

EvaluateBreedingPair ==
    /\ pc = "called"
    /\ result' = evaluateBreedingPair(argParent1, argParent2, argSprint)
    /\ pc' = "returned"
    /\ UNCHANGED <<argParent1, argParent2, argSprint, allCombos, children,
                   fnArgs, fnResult>>
    /\ UNCHANGED <<storeVars, clock>>

EvalNext == EvaluateBreedingPair

SpecEval == EvalInit /\ [][EvalNext]_vars

(***************************************************************************)
(* SpecGeno: calls of evaluateBreedingPair with default coveringsLeft,     *)
(* observing the locals allGenotypeCombos and children as well             *)
(***************************************************************************)
GenoInit ==
    /\ \E a \in 1..Len(StatProfiles) :
           argParent1 = ParentData("male", StatProfiles[a], DefaultCoveringsLeft)
    /\ \E b \in 1..Len(StatProfiles) :
           argParent2 = ParentData("female", StatProfiles[b], DefaultCoveringsLeft)
    /\ argSprint \in BOOLEAN
    /\ pc = "called"
    /\ result = NaN
    /\ allCombos = <<>>
    /\ children = <<>>
    /\ fnArgs = <<>>
    /\ fnResult = <<>>
    /\ StoreConstructed
    /\ clock = 0

EvaluateBreedingPairLocals ==
    /\ pc = "called"
    /\ allCombos' = unsortedChildren(argParent1, argParent2)
    /\ children' = sortedChildren(argParent1, argParent2, argSprint)
    /\ result' = evaluateBreedingPair(argParent1, argParent2, argSprint)
    /\ pc' = "returned"
    /\ UNCHANGED <<argParent1, argParent2, argSprint, fnArgs, fnResult>>
    /\ UNCHANGED <<storeVars, clock>>

GenoNext == EvaluateBreedingPairLocals

SpecGeno == GenoInit /\ [][GenoNext]_vars

(***************************************************************************)
(* SpecCompare: calls of the comparator made by createChocoboComparator on *)
(* two genotypes with alleles in 1..5                                      *)
(***************************************************************************)
\* [father, mother] options of each stat of the genotypes compared
MaxSpeedOptions == {<<5, 1>>, <<1, 5>>, <<2, 4>>, <<3, 4>>}
AccelerationOptions == {<<5, 5>>, <<2, 3>>}
EnduranceOptions == {<<2, 2>>, <<3, 3>>, <<5, 4>>}
StaminaOptions == {<<4, 4>>, <<5, 5>>}
CunningOptions == {<<1, 2>>, <<2, 1>>}

\* the ChocoboGenotype objects compared
GenotypePool ==
    {[stats |-> <<o[1], o[2], o[3], o[4], o[5]>>] :
        o \in MaxSpeedOptions \X AccelerationOptions \X EnduranceOptions
                \X StaminaOptions \X CunningOptions}

CompareInit ==
    /\ fnArgs \in [a : GenotypePool, b : GenotypePool]
    /\ argSprint \in BOOLEAN
    /\ pc = "called"
    /\ fnResult = <<>>
    /\ argParent1 = ParentData("male", UniformStats(MinStat), DefaultCoveringsLeft)
    /\ argParent2 = ParentData("female", UniformStats(MinStat), DefaultCoveringsLeft)
    /\ result = NaN
    /\ allCombos = <<>>
    /\ children = <<>>
    /\ StoreConstructed
    /\ clock = 0

\* one call comparator(a, b) of the function createChocoboComparator returns
CompareGenotypes ==
    /\ pc = "called"
    /\ fnResult' = createChocoboComparator(argSprint, fnArgs.a, fnArgs.b)
    /\ pc' = "returned"
    /\ UNCHANGED <<argParent1, argParent2, argSprint, result, allCombos,
                   children, fnArgs>>
    /\ UNCHANGED <<storeVars, clock>>

CompareNext == CompareGenotypes

SpecCompare == CompareInit /\ [][CompareNext]_vars

(***************************************************************************)
(* The store (chocoboStore): records and selectors                         *)
(***************************************************************************)
\* upper bound of StatValueSchema
SchemaMaxStat == 4

\* grade is optional: 0 stands for undefined
NoGrade == 0

\* bounds of the grade in ChocoboSchema
MinGrade == 1
MaxGrade == 9

\* an optional field other than grade holds <<>> when it is undefined and
\* <<value>> otherwise
Undefined == <<>>
Defined(value) == <<value>>

\* the values of ChocoboAbilitySchema
ChocoboAbilitySchema ==
    {"Choco Dash I", "Choco Dash II", "Choco Dash III", "Choco Cure I",
      "Choco Cure II", "Choco Cure III", "Choco Esuna I", "Choco Esuna II",
      "Choco Esuna III", "Choco Ease I", "Choco Ease II", "Choco Ease III",
      "Choco Calm I", "Choco Calm II", "Choco Calm III", "Choco Reflect I",
      "Choco Reflect II", "Choco Reflect III", "Choco Steal I",
      "Choco Steal II", "Choco Steal III", "Choco Silence I",
      "Choco Silence II", "Choco Silence III", "Choco Shock I",
      "Choco Shock II", "Choco Shock III", "Increased Stamina I",
      "Increased Stamina II", "Increased Stamina III", "Speedy Recovery I",
      "Speedy Recovery II", "Speedy Recovery III", "Dressage I",
      "Dressage II", "Dressage III", "Choco Drain I", "Choco Drain II",
      "Choco Drain III", "Mimic I", "Mimic II", "Mimic III",
      "Feather Field I", "Feather Field II", "Feather Field III",
      "Choco Reraise I", "Choco Reraise II", "Choco Reraise III",
      "Enfeeblement Clause I", "Enfeeblement Clause II",
      "Enfeeblement Clause III", "Breather I", "Breather II", "Breather III",
      "Heavy Resistance I", "Heavy Resistance II", "Heavy Resistance III",
      "Heavy Resistance IV", "Heavy Resistance V", "Level Head I",
      "Level Head II", "Level Head III", "Level Head IV", "Level Head V",
      "Super Sprint", "Paradigm Shift" }

\* strings are sequences of characters; the character at position i
CharAt(string, i) == SubSeq(string, i, i)

Digits == {"0", "1", "2", "3", "4", "5", "6", "7", "8", "9"}

\* the value of a digit character
DigitValue(char) ==
    CASE char = "0" -> 0 [] char = "1" -> 1 [] char = "2" -> 2
      [] char = "3" -> 3 [] char = "4" -> 4 [] char = "5" -> 5
      [] char = "6" -> 6 [] char = "7" -> 7 [] char = "8" -> 8
      [] char = "9" -> 9

\* positions lo..hi of the string exist and hold digits
AllDigits(string, lo, hi) ==
    /\ hi <= Len(string)
    /\ \A i \in lo..hi : CharAt(string, i) \in Digits

\* the number written by the two digits at positions i and i + 1
TwoDigits(string, i) ==
    10 * DigitValue(CharAt(string, i)) + DigitValue(CharAt(string, i + 1))

\* days of the month, February of a leap year included
DaysInMonth(year, month) ==
    IF month \in {4, 6, 9, 11} THEN 30
    ELSE IF month # 2 THEN 31
    ELSE IF year % 4 = 0 /\ (year % 100 # 0 \/ year % 400 = 0) THEN 29
    ELSE 28

\* z.string().datetime() with no options: a calendar date, "T", hours and
\* minutes, optionally seconds with any number of fraction digits, and "Z"
\* (no offset)
IsDatetime(string) ==
    /\ Len(string) >= 17
    /\ AllDigits(string, 1, 4)
    /\ CharAt(string, 5) = "-"
    /\ AllDigits(string, 6, 7)
    /\ CharAt(string, 8) = "-"
    /\ AllDigits(string, 9, 10)
    /\ CharAt(string, 11) = "T"
    /\ AllDigits(string, 12, 13)
    /\ CharAt(string, 14) = ":"
    /\ AllDigits(string, 15, 16)
    /\ LET year == 100 * TwoDigits(string, 1) + TwoDigits(string, 3)
           month == TwoDigits(string, 6)
           day == TwoDigits(string, 9)
       IN  /\ month \in 1..12
           /\ day \in 1..DaysInMonth(year, month)
    /\ TwoDigits(string, 12) <= 23
    /\ TwoDigits(string, 15) <= 59
    /\ CharAt(string, Len(string)) = "Z"
    /\ \/ Len(string) = 17
       \/ /\ Len(string) >= 20
          /\ CharAt(string, 17) = ":"
          /\ AllDigits(string, 18, 19)
          /\ TwoDigits(string, 18) <= 59
          /\ \/ Len(string) = 20
             \/ /\ Len(string) >= 22
                /\ CharAt(string, 20) = "."
                /\ AllDigits(string, 21, Len(string) - 1)

\* the day the clock is read on; an instant is held as the milliseconds
\* since the start of this day (UTC)
ClockDay == "2025-01-01"

\* the latest instant a reading of the clock returns
MaxClock == 1

\* the character of a digit
DigitChar(digit) == CharAt("0123456789", digit + 1)

\* padStart(2, "0") and padStart(3, "0") of a number
Pad2(number) == DigitChar(number \div 10) \o DigitChar(number % 10)
Pad3(number) == DigitChar(number \div 100) \o Pad2(number % 100)

\* new Date(instant).toISOString()
toISOString(instant) ==
    ClockDay \o "T" \o Pad2(instant \div 3600000)
        \o ":" \o Pad2((instant \div 60000) % 60)
        \o ":" \o Pad2((instant \div 1000) % 60)
        \o "." \o Pad3(instant % 1000) \o "Z"

\* what n successive calls of new Date() return when the call before them
\* returned from: each an instant not before the one before it
RECURSIVE ClockReadings(_, _)
ClockReadings(from, n) ==
    IF n = 0 THEN {<<>>}
    ELSE UNION {{<<now>> \o later : later \in ClockReadings(now, n - 1)} :
                   now \in from..MaxClock}

\* the instant returned last, after the calls that returned times
LastReading(from, times) ==
    IF Len(times) = 0 THEN from ELSE times[Len(times)]

\* the positions of a list the callback of list.map(...) reads the clock at,
\* and the reading at one of them: the readings are made in list order
ReadingAt(positions, times, k) ==
    times[Cardinality({j \in positions : j <= k})]

UpperCase ==
    <<"A", "B", "C", "D", "E", "F", "G", "H", "I", "J", "K", "L", "M", "N",
      "O", "P", "Q", "R", "S", "T", "U", "V", "W", "X", "Y", "Z", "À", "Á",
      "Â", "Ã", "Ä", "Å", "Æ", "Ç", "È", "É", "Ê", "Ë", "Ì", "Í", "Î", "Ï",
      "Ð", "Ñ", "Ò", "Ó", "Ô", "Õ", "Ö", "Ø", "Ù", "Ú", "Û", "Ü", "Ý", "Þ">>
LowerCase ==
    <<"a", "b", "c", "d", "e", "f", "g", "h", "i", "j", "k", "l", "m", "n",
      "o", "p", "q", "r", "s", "t", "u", "v", "w", "x", "y", "z", "à", "á",
      "â", "ã", "ä", "å", "æ", "ç", "è", "é", "ê", "ë", "ì", "í", "î", "ï",
      "ð", "ñ", "ò", "ó", "ô", "õ", "ö", "ø", "ù", "ú", "û", "ü", "ý", "þ">>

\* toLowerCase of one character.  A string holds characters from U+0000 to
\* U+00FF; of these the letters A to Z and the letters from U+00C0 to U+00DE
\* (the sign U+00D7 is no letter) have a lower case, and every other one is
\* kept
LowerChar(char) ==
    IF \E i \in 1..Len(UpperCase) : UpperCase[i] = char
    THEN LowerCase[CHOOSE i \in 1..Len(UpperCase) : UpperCase[i] = char]
    ELSE char

\* the characters up to U+00FF that \s matches: the space, the tab, the
\* line feed, the carriage return, the form feed, the vertical tab U+000B
\* and the no-break space U+00A0
Whitespace == {" ", "\t", "\n", "\r", "\f", "", " "}

\* string.toLowerCase().replace(/\s+/g, ''), from position i on
RECURSIVE NormalizedFrom(_, _)
NormalizedFrom(string, i) ==
    IF i > Len(string) THEN ""
    ELSE IF CharAt(string, i) \in Whitespace
    THEN NormalizedFrom(string, i + 1)
    ELSE LowerChar(CharAt(string, i)) \o NormalizedFrom(string, i + 1)

Normalized(string) == NormalizedFrom(string, 1)

\* string.includes(query)
Includes(string, query) ==
    \E i \in 0..(Len(string) - Len(query)) :
        SubSeq(string, i + 1, i + Len(query)) = query

\* a Chocobo record as createDefaultChocobo and the update handlers leave
\* it: no name, no ability, both timestamps set
Chocobo(id, gender, grade, stats, coveringsLeft, createdAt, updatedAt) ==
    [id |-> id, gender |-> gender, name |-> Undefined, grade |-> grade,
     ability |-> Undefined, stats |-> stats, coveringsLeft |-> coveringsLeft,
     createdAt |-> Defined(createdAt), updatedAt |-> Defined(updatedAt)]

\* the star value countLockedStats tests both alleles of a stat against
LockedStatValue == 4

\* countLockedStats of the schema module
countLockedStats(chocobo) ==
    LET stats == chocobo.stats
        locked0 == 0
        locked1 == IF stats.fatherMaxSpeed = LockedStatValue
                      /\ stats.motherMaxSpeed = LockedStatValue
                   THEN locked0 + 1 ELSE locked0
        locked2 == IF stats.fatherAcceleration = LockedStatValue
                      /\ stats.motherAcceleration = LockedStatValue
                   THEN locked1 + 1 ELSE locked1
        locked3 == IF stats.fatherEndurance = LockedStatValue
                      /\ stats.motherEndurance = LockedStatValue
                   THEN locked2 + 1 ELSE locked2
        locked4 == IF stats.fatherStamina = LockedStatValue
                      /\ stats.motherStamina = LockedStatValue
                   THEN locked3 + 1 ELSE locked3
        locked5 == IF stats.fatherCunning = LockedStatValue
                      /\ stats.motherCunning = LockedStatValue
                   THEN locked4 + 1 ELSE locked4
    IN  locked5

convertToParentDataParsed(chocobo) ==
    ParentData(chocobo.gender, chocobo.stats, chocobo.coveringsLeft)

\* statMap[stat].father and statMap[stat].mother applied to chocobo.stats
FatherStatOf(chocobo, stat) ==
    CASE stat = "maxSpeed" -> chocobo.stats.fatherMaxSpeed
      [] stat = "acceleration" -> chocobo.stats.fatherAcceleration
      [] stat = "endurance" -> chocobo.stats.fatherEndurance
      [] stat = "stamina" -> chocobo.stats.fatherStamina
      [] stat = "cunning" -> chocobo.stats.fatherCunning

MotherStatOf(chocobo, stat) ==
    CASE stat = "maxSpeed" -> chocobo.stats.motherMaxSpeed
      [] stat = "acceleration" -> chocobo.stats.motherAcceleration
      [] stat = "endurance" -> chocobo.stats.motherEndurance
      [] stat = "stamina" -> chocobo.stats.motherStamina
      [] stat = "cunning" -> chocobo.stats.motherCunning

\* the callback of statFilters.every(...); a filter is [id, type] with the
\* fields of its type: stat, parent and minValue ("stat"), minValue
\* ("grade"), ability ("ability"), searchQuery ("name")
PassesFilter(chocobo, filter) ==
    IF filter.type = "stat"
    THEN IF filter.parent = "one"
         THEN \/ FatherStatOf(chocobo, filter.stat) >= filter.minValue
              \/ MotherStatOf(chocobo, filter.stat) >= filter.minValue
         ELSE /\ FatherStatOf(chocobo, filter.stat) >= filter.minValue
              /\ MotherStatOf(chocobo, filter.stat) >= filter.minValue
    ELSE IF filter.type = "grade"
    THEN IF chocobo.grade = NoGrade THEN FALSE
         ELSE chocobo.grade >= filter.minValue
    ELSE IF filter.type = "ability"
    THEN IF filter.ability = "None" THEN chocobo.ability = Undefined
         ELSE chocobo.ability = Defined(filter.ability)
    ELSE IF filter.type = "name"
    THEN IF chocobo.name = Undefined \/ chocobo.name = Defined("") THEN FALSE
         ELSE LET normalizedName == Normalized(chocobo.name[1])
                  normalizedQuery == Normalized(filter.searchQuery)
              IN  Includes(normalizedName, normalizedQuery)
    ELSE TRUE

SeqRange(seq) == {seq[k] : k \in 1..Len(seq)}

getFilteredChocobos ==
    IF isEditMode /\ Len(frozenFilteredIds) > 0
    THEN SelectSeq(chocobos, LAMBDA c : c.id \in SeqRange(frozenFilteredIds))
    ELSE IF Len(statFilters) = 0 THEN chocobos
    ELSE SelectSeq(chocobos,
                   LAMBDA c : \A f \in 1..Len(statFilters) :
                                  PassesFilter(c, statFilters[f]))

(***************************************************************************)
(* Store actions                                                           *)
(***************************************************************************)
\* the store handler called name has returned; no direct call is touched
HandlerReturned(name) ==
    /\ pc' = name
    /\ fnArgs' = <<>>
    /\ fnResult' = <<>>
    /\ UNCHANGED <<argParent1, argParent2, argSprint, result, allCombos,
                   children>>

\* the store handler called name has run, one that does not read the clock
StoreHandlerRan(name) ==
    /\ HandlerReturned(name)
    /\ UNCHANGED clock

\* mutant of SearchPairs: every pair evaluated replaces bestPair
RECURSIVE SearchPairs_NoComparison(_, _, _, _, _, _, _)
SearchPairs_NoComparison(males, females, m, f, bestPair, bestScore, sprint) ==
    IF m > Len(males) THEN bestPair
    ELSE IF f > Len(females)
         THEN SearchPairs_NoComparison(males, females, m + 1, 1, bestPair,
                                       bestScore, sprint)
    ELSE LET score == evaluateBreedingPair(convertToParentDataParsed(males[m]),
                                           convertToParentDataParsed(females[f]),
                                           sprint)
         IN  SearchPairs_NoComparison(males, females, m, f + 1,
                                      <<[father |-> males[m],
                                         mother |-> females[f],
                                         score |-> score]>>,
                                      score, sprint)

\* the two nested loops of findOptimalBreedingPair, from male number m and
\* female number f on; returns bestPair
RECURSIVE SearchPairs(_, _, _, _, _, _, _)
SearchPairs(males, females, m, f, bestPair, bestScore, sprint) ==
    IF m > Len(males) THEN bestPair
    ELSE IF f > Len(females)
         THEN SearchPairs(males, females, m + 1, 1, bestPair, bestScore, sprint)
    ELSE LET score == evaluateBreedingPair(convertToParentDataParsed(males[m]),
                                           convertToParentDataParsed(females[f]),
                                           sprint)
         IN  IF GreaterThan(score, bestScore)
             THEN SearchPairs(males, females, m, f + 1,
                              <<[father |-> males[m], mother |-> females[f],
                                 score |-> score]>>,
                              score, sprint)
             ELSE SearchPairs(males, females, m, f + 1, bestPair, bestScore,
                              sprint)

\* mutant of findOptimalBreedingPair: the early return leaves optimalPair as
\* it was
findOptimalBreedingPair_KeepsStalePair ==
    /\ LET filtered == getFilteredChocobos
           males == SelectSeq(filtered, LAMBDA c : c.gender = "male")
           females == SelectSeq(filtered, LAMBDA c : c.gender = "female")
       IN  IF Len(males) = 0 \/ Len(females) = 0
           THEN optimalPair' = optimalPair
           ELSE optimalPair' = SearchPairs(males, females, 1, 1, <<>>,
                                           NegInfinity, superSprint)
    /\ UNCHANGED <<chocobos, statFilters, superSprint, sortVars, editVars>>
    /\ StoreHandlerRan("findOptimalBreedingPair")

\* mutant of findOptimalBreedingPair: the local filtered list (named chocobos
\* in the source) is stored together with the pair
findOptimalBreedingPair_StoresFiltered ==
    /\ LET filtered == getFilteredChocobos
           males == SelectSeq(filtered, LAMBDA c : c.gender = "male")
           females == SelectSeq(filtered, LAMBDA c : c.gender = "female")
       IN  /\ IF Len(males) = 0 \/ Len(females) = 0
              THEN optimalPair' = <<>>
              ELSE optimalPair' = SearchPairs(males, females, 1, 1, <<>>,
                                              NegInfinity, superSprint)
           /\ chocobos' = filtered
    /\ UNCHANGED <<statFilters, superSprint, sortVars, editVars>>
    /\ StoreHandlerRan("findOptimalBreedingPair")

findOptimalBreedingPair ==
    /\ LET filtered == getFilteredChocobos
           males == SelectSeq(filtered, LAMBDA c : c.gender = "male")
           females == SelectSeq(filtered, LAMBDA c : c.gender = "female")
       IN  IF Len(males) = 0 \/ Len(females) = 0
           THEN optimalPair' = <<>>
           ELSE optimalPair' = SearchPairs(males, females, 1, 1, <<>>,
                                           NegInfinity, superSprint)
    /\ UNCHANGED <<chocobos, statFilters, superSprint, sortVars, editVars>>
    /\ StoreHandlerRan("findOptimalBreedingPair")

clearOptimalPair ==
    /\ optimalPair' = <<>>
    /\ UNCHANGED <<chocobos, statFilters, superSprint, sortVars, editVars>>
    /\ StoreHandlerRan("clearOptimalPair")

setSuperSprint(flag) ==
    /\ superSprint' = flag
    /\ UNCHANGED <<chocobos, optimalPair, statFilters, sortVars, editVars>>
    /\ StoreHandlerRan("setSuperSprint")

\* the random id of a new filter: one no filter of the list has (the least)
NewFilterId ==
    LET used == {statFilters[k].id : k \in 1..Len(statFilters)}
    IN  CHOOSE n \in 1..(Len(statFilters) + 1) :
            /\ n \notin used
            /\ \A k \in 1..(n - 1) : k \in used

addStatFilter(filter) ==
    /\ statFilters' = Append(statFilters,
                             [k \in DOMAIN filter \cup {"id"} |->
                                 IF k = "id" THEN NewFilterId ELSE filter[k]])
    /\ pendingChangesWhileEditing' = (isEditMode \/ pendingChangesWhileEditing)
    /\ UNCHANGED <<chocobos, optimalPair, superSprint, sortVars, isEditMode,
                   frozenMaleSortOrder, frozenFemaleSortOrder,
                   frozenFilteredIds>>
    /\ StoreHandlerRan("addStatFilter")

clearAllFilters ==
    /\ statFilters' = <<>>
    /\ pendingChangesWhileEditing' = (isEditMode \/ pendingChangesWhileEditing)
    /\ UNCHANGED <<chocobos, optimalPair, superSprint, sortVars, isEditMode,
                   frozenMaleSortOrder, frozenFemaleSortOrder,
                   frozenFilteredIds>>
    /\ StoreHandlerRan("clearAllFilters")

setSortType(newSortType) ==
    /\ sortType' = newSortType
    /\ pendingChangesWhileEditing' = (isEditMode \/ pendingChangesWhileEditing)
    /\ UNCHANGED <<chocobos, optimalPair, statFilters, superSprint, sortOrder,
                   isEditMode, frozenMaleSortOrder, frozenFemaleSortOrder,
                   frozenFilteredIds>>
    /\ StoreHandlerRan("setSortType")

setSortOrder(newSortOrder) ==
    /\ sortOrder' = newSortOrder
    /\ pendingChangesWhileEditing' = (isEditMode \/ pendingChangesWhileEditing)
    /\ UNCHANGED <<chocobos, optimalPair, statFilters, superSprint, sortType,
                   isEditMode, frozenMaleSortOrder, frozenFemaleSortOrder,
                   frozenFilteredIds>>
    /\ StoreHandlerRan("setSortOrder")

\* the star value countFourStarStats counts
FourStarValue == 4

calculateChocoboQuality(chocobo) ==
    LET stats == chocobo.stats
    IN  stats.fatherMaxSpeed + stats.fatherAcceleration + stats.fatherEndurance
        + stats.fatherStamina + stats.fatherCunning + stats.motherMaxSpeed
        + stats.motherAcceleration + stats.motherEndurance
        + stats.motherStamina + stats.motherCunning

countFourStarStats(chocobo) ==
    LET stats == chocobo.stats
    IN  Cardinality({k \in DOMAIN stats : stats[k] = FourStarValue})

\* [...list].sort(compare), where compared[j][k] is compare(list[j], list[k]):
\* an element that comes later in list is placed before an earlier one
\* exactly when compare(later, earlier) < 0
ArraySort(list, compared) ==
    LET n == Len(list)
        Precedes(j, k) ==
            IF j < k THEN compared[k][j] >= 0
            ELSE compared[j][k] < 0
        PositionOf(k) ==
            1 + Cardinality({j \in 1..n : j # k /\ Precedes(j, k)})
    IN  [p \in 1..n |-> list[CHOOSE k \in 1..n : PositionOf(k) = p]]

\* the value sortChocobos compares the chocobos by
SortValue(chocobo, type) ==
    CASE type = "quality" -> calculateChocoboQuality(chocobo)
      [] type = "locked" -> countLockedStats(chocobo)
      [] type = "fiveStars" -> countFourStarStats(chocobo)
      [] OTHER -> calculateChocoboQuality(chocobo)

sortChocobos(list, type, order) ==
    ArraySort(list,
              [a \in 1..Len(list) |-> [b \in 1..Len(list) |->
                  IF order = "desc"
                  THEN SortValue(list[b], type) - SortValue(list[a], type)
                  ELSE SortValue(list[a], type) - SortValue(list[b], type)]])

\* frozen.indexOf(id), 0-based, -1 if absent
IndexOf(frozen, id) ==
    IF id \notin SeqRange(frozen) THEN 0 - 1
    ELSE (CHOOSE k \in 1..Len(frozen) :
              /\ frozen[k] = id
              /\ \A j \in 1..(k - 1) : frozen[j] # id) - 1

\* the comparator of the frozen sort order
FrozenCompare(frozen, a, b) ==
    LET indexA == IndexOf(frozen, a.id)
        indexB == IndexOf(frozen, b.id)
    IN  IF indexA = 0 - 1 THEN 1
        ELSE IF indexB = 0 - 1 THEN 0 - 1
        ELSE indexA - indexB

getMaleChocobos == SelectSeq(getFilteredChocobos, LAMBDA c : c.gender = "male")

getFemaleChocobos ==
    SelectSeq(getFilteredChocobos, LAMBDA c : c.gender = "female")

getSortedMales ==
    LET males == getMaleChocobos
    IN  IF isEditMode /\ Len(frozenMaleSortOrder) > 0
        THEN ArraySort(males,
                       [a \in 1..Len(males) |-> [b \in 1..Len(males) |->
                           FrozenCompare(frozenMaleSortOrder,
                                         males[a], males[b])]])
        ELSE sortChocobos(males, sortType, sortOrder)

getSortedFemales ==
    LET females == getFemaleChocobos
    IN  IF isEditMode /\ Len(frozenFemaleSortOrder) > 0
        THEN ArraySort(females,
                       [a \in 1..Len(females) |-> [b \in 1..Len(females) |->
                           FrozenCompare(frozenFemaleSortOrder,
                                         females[a], females[b])]])
        ELSE sortChocobos(females, sortType, sortOrder)

\* list.map(c => c.id)
IdsOf(list) == [k \in 1..Len(list) |-> list[k].id]

\* mutant of setEditMode: leaving edit mode keeps the pending flag
setEditMode_KeepsPending(newIsEditMode) ==
    /\ isEditMode' = newIsEditMode
    /\ IF newIsEditMode
       THEN /\ frozenMaleSortOrder' = IdsOf(getSortedMales)
            /\ frozenFemaleSortOrder' = IdsOf(getSortedFemales)
            /\ frozenFilteredIds' = IdsOf(getFilteredChocobos)
            /\ UNCHANGED pendingChangesWhileEditing
       ELSE /\ frozenMaleSortOrder' = <<>>
            /\ frozenFemaleSortOrder' = <<>>
            /\ frozenFilteredIds' = <<>>
            /\ UNCHANGED pendingChangesWhileEditing
    /\ UNCHANGED <<chocobos, optimalPair, statFilters, superSprint, sortVars>>
    /\ StoreHandlerRan("setEditMode")

setEditMode(newIsEditMode) ==
    /\ isEditMode' = newIsEditMode
    /\ IF newIsEditMode
       THEN /\ frozenMaleSortOrder' = IdsOf(getSortedMales)
            /\ frozenFemaleSortOrder' = IdsOf(getSortedFemales)
            /\ frozenFilteredIds' = IdsOf(getFilteredChocobos)
            /\ UNCHANGED pendingChangesWhileEditing
       ELSE /\ frozenMaleSortOrder' = <<>>
            /\ frozenFemaleSortOrder' = <<>>
            /\ frozenFilteredIds' = <<>>
            /\ pendingChangesWhileEditing' = FALSE
    /\ UNCHANGED <<chocobos, optimalPair, statFilters, superSprint, sortVars>>
    /\ StoreHandlerRan("setEditMode")

\* every id the state holds: in the collection, in the frozen lists and in
\* optimalPair
IdsInUse ==
    {chocobos[k].id : k \in 1..Len(chocobos)}
    \cup SeqRange(frozenMaleSortOrder) \cup SeqRange(frozenFemaleSortOrder)
    \cup SeqRange(frozenFilteredIds)
    \cup (IF optimalPair = <<>> THEN {}
          ELSE {optimalPair[1].father.id, optimalPair[1].mother.id})

\* generateUUID: an id that occurs nowhere (the least such number)
generateUUID ==
    CHOOSE n \in 1..(Cardinality(IdsInUse) + 1) :
        /\ n \notin IdsInUse
        /\ \A k \in 1..(n - 1) : k \in IdsInUse

\* createDefaultChocobo reads the clock twice, for createdAt and then for
\* updatedAt
createDefaultChocobo(gender, createdAt, updatedAt) ==
    Chocobo(generateUUID, gender, NoGrade, UniformStats(MinStat),
            DefaultCoveringsLeft, toISOString(createdAt),
            toISOString(updatedAt))

\* { ...c, ...updates }: the fields of updates replace those of c
Spread(c, updates) ==
    [k \in DOMAIN c |-> IF k \in DOMAIN updates THEN updates[k] ELSE c[k]]

addChocobo(gender) ==
    \E times \in ClockReadings(clock, 2) :
        /\ LET newChocobo == createDefaultChocobo(gender, times[1], times[2])
           IN  IF isEditMode
               THEN /\ chocobos' = Append(chocobos, newChocobo)
                    /\ frozenMaleSortOrder' =
                           IF gender = "male"
                           THEN <<newChocobo.id>> \o frozenMaleSortOrder
                           ELSE frozenMaleSortOrder
                    /\ frozenFemaleSortOrder' =
                           IF gender = "female"
                           THEN <<newChocobo.id>> \o frozenFemaleSortOrder
                           ELSE frozenFemaleSortOrder
                    /\ frozenFilteredIds' =
                           <<newChocobo.id>> \o frozenFilteredIds
               ELSE /\ chocobos' = Append(chocobos, newChocobo)
                    /\ UNCHANGED <<frozenMaleSortOrder, frozenFemaleSortOrder,
                                   frozenFilteredIds>>
        /\ UNCHANGED <<optimalPair, statFilters, superSprint, sortVars,
                       isEditMode, pendingChangesWhileEditing>>
        /\ HandlerReturned("addChocobo")
        /\ clock' = LastReading(clock, times)

\* mutant of removeChocobo: optimalPair is kept whoever is removed
removeChocobo_KeepsPair(id) ==
    /\ chocobos' = SelectSeq(chocobos, LAMBDA c : c.id # id)
    /\ optimalPair' = optimalPair
    /\ UNCHANGED <<statFilters, superSprint, sortVars, editVars>>
    /\ StoreHandlerRan("removeChocobo")

removeChocobo(id) ==
    /\ chocobos' = SelectSeq(chocobos, LAMBDA c : c.id # id)
    /\ optimalPair' =
           IF optimalPair # <<>>
              /\ (optimalPair[1].father.id = id \/ optimalPair[1].mother.id = id)
           THEN <<>>
           ELSE optimalPair
    /\ UNCHANGED <<statFilters, superSprint, sortVars, editVars>>
    /\ StoreHandlerRan("removeChocobo")

\* the positions of the chocobos whose id is one of ids
PositionsOf(ids) == {k \in 1..Len(chocobos) : chocobos[k].id \in ids}

\* updates is a record holding some of the fields of a Chocobo; the clock is
\* read for every chocobo with the id
updateChocobo(id, updates) ==
    LET positions == PositionsOf({id})
    IN  \E times \in ClockReadings(clock, Cardinality(positions)) :
            /\ chocobos' =
                   [k \in 1..Len(chocobos) |->
                       IF chocobos[k].id = id
                       THEN [Spread(chocobos[k], updates) EXCEPT
                                !.updatedAt =
                                    Defined(toISOString(
                                        ReadingAt(positions, times, k)))]
                       ELSE chocobos[k]]
            /\ UNCHANGED <<optimalPair, statFilters, superSprint, sortVars,
                           editVars>>
            /\ HandlerReturned("updateChocobo")
            /\ clock' = LastReading(clock, times)

\* stats is a record holding some of the fields of Chocobo["stats"]
updateChocoboStats(id, stats) ==
    LET positions == PositionsOf({id})
    IN  \E times \in ClockReadings(clock, Cardinality(positions)) :
            /\ chocobos' =
                   [k \in 1..Len(chocobos) |->
                       IF chocobos[k].id = id
                       THEN [chocobos[k] EXCEPT
                                !.stats = Spread(chocobos[k].stats, stats),
                                !.updatedAt =
                                    Defined(toISOString(
                                        ReadingAt(positions, times, k)))]
                       ELSE chocobos[k]]
            /\ UNCHANGED <<optimalPair, statFilters, superSprint, sortVars,
                           editVars>>
            /\ HandlerReturned("updateChocoboStats")
            /\ clock' = LastReading(clock, times)

\* updatedChocobos.find(c => c.id === id): the first match, <<>> if none
FindById(list, id) ==
    LET matches == SelectSeq(list, LAMBDA c : c.id = id)
    IN  IF Len(matches) = 0 THEN <<>> ELSE <<matches[1]>>

\* mutant of BredCoverings: no floor at 0
BredCoverings_NoFloor(c) == c.coveringsLeft - 1

\* Math.max(0, c.coveringsLeft - 1)
BredCoverings(c) == IF c.coveringsLeft - 1 < 0 THEN 0 ELSE c.coveringsLeft - 1

\* the clock is read for the father and for the mother, in the order of
\* the collection
breedOptimalPair ==
    IF optimalPair = <<>>
    THEN /\ UNCHANGED <<chocobos, optimalPair>>
         /\ UNCHANGED <<statFilters, superSprint, sortVars, editVars>>
         /\ StoreHandlerRan("breedOptimalPair")
    ELSE LET fatherId == optimalPair[1].father.id
             motherId == optimalPair[1].mother.id
             positions == PositionsOf({fatherId, motherId})
         IN  \E times \in ClockReadings(clock, Cardinality(positions)) :
                 LET updatedChocobos ==
                         [k \in 1..Len(chocobos) |->
                             IF chocobos[k].id = fatherId
                                \/ chocobos[k].id = motherId
                             THEN [chocobos[k] EXCEPT
                                      !.coveringsLeft =
                                          BredCoverings(chocobos[k]),
                                      !.updatedAt =
                                          Defined(toISOString(
                                              ReadingAt(positions, times, k)))]
                             ELSE chocobos[k]]
                     updatedFather == FindById(updatedChocobos, fatherId)
                     updatedMother == FindById(updatedChocobos, motherId)
                 IN  /\ chocobos' = updatedChocobos
                     /\ optimalPair' =
                            IF updatedFather # <<>> /\ updatedMother # <<>>
                            THEN <<[optimalPair[1] EXCEPT
                                        !.father = updatedFather[1],
                                        !.mother = updatedMother[1]]>>
                            ELSE optimalPair
                     /\ UNCHANGED <<statFilters, superSprint, sortVars,
                                    editVars>>
                     /\ HandlerReturned("breedOptimalPair")
                     /\ clock' = LastReading(clock, times)

removeStatFilter(id) ==
    /\ statFilters' = SelectSeq(statFilters, LAMBDA f : f.id # id)
    /\ pendingChangesWhileEditing' = (isEditMode \/ pendingChangesWhileEditing)
    /\ UNCHANGED <<chocobos, optimalPair, superSprint, sortVars, isEditMode,
                   frozenMaleSortOrder, frozenFemaleSortOrder,
                   frozenFilteredIds>>
    /\ StoreHandlerRan("removeStatFilter")

(***************************************************************************)
(* SpecSearch: the store after addChocobo and updateChocoboStats have      *)
(* built a collection with as many males as females, in any order, exactly *)
(* one male and one female of which have all-maximum stats (grade and      *)
(* coveringsLeft as createDefaultChocobo leaves them; updateChocoboStats   *)
(* stores the stats it is given unvalidated); the user then searches for   *)
(* the optimal pair.                                                       *)
(***************************************************************************)
\* males (and females) in the collection
SearchPerGender == 3

\* the value taken as the maximum stat: the schema's upper bound, or the
\* value the ranking tests alleles against
MaxStatValues == {SchemaMaxStat, RankedMaxStat}

\* stats of the chocobos that are not all-maximum
OtherProfiles == {StatProfiles[2], StatProfiles[6]}

SearchInit ==
    /\ \E maleAt \in SUBSET (1..(2 * SearchPerGender)) :
         /\ Cardinality(maleAt) = SearchPerGender
         /\ \E bestMale \in maleAt,
               bestFemale \in (1..(2 * SearchPerGender)) \ maleAt,
               mx \in MaxStatValues,
               other \in OtherProfiles :
              chocobos =
                [k \in 1..(2 * SearchPerGender) |->
                    Chocobo(k,
                            IF k \in maleAt THEN "male" ELSE "female",
                            NoGrade,
                            IF k = bestMale \/ k = bestFemale
                            THEN UniformStats(mx) ELSE other,
                            DefaultCoveringsLeft, toISOString(0),
                            toISOString(0))]
    /\ optimalPair = <<>>
    /\ statFilters = <<>>
    /\ sortType = "quality"
    /\ sortOrder = "desc"
    /\ isEditMode = FALSE
    /\ frozenMaleSortOrder = <<>>
    /\ frozenFemaleSortOrder = <<>>
    /\ frozenFilteredIds = <<>>
    /\ pendingChangesWhileEditing = FALSE
    /\ superSprint = FALSE
    /\ NoDirectCall
    /\ clock = 0

SearchNext ==
    \/ findOptimalBreedingPair
    \/ clearOptimalPair
    \/ \E flag \in BOOLEAN : setSuperSprint(flag)

SpecSearch == SearchInit /\ [][SearchNext]_vars

(***************************************************************************)
(* SpecPairing: the store after addChocobo, updateChocobo and              *)
(* updateChocoboStats have built any collection of at most MaxChocobos     *)
(* candidates; the user then sets filters, sort settings and the mode and  *)
(* searches for the optimal pair.                                          *)
(***************************************************************************)
\* candidates in the collection
MaxChocobos == 4

\* (stats, coveringsLeft, name, ability) of the candidates: as created, as
\* created with a name and no attempt left, and with all stats at the
\* schema's maximum, one attempt and an ability
PairingKinds ==
    { <<UniformStats(MinStat), DefaultCoveringsLeft, Undefined, Undefined>>,
      <<UniformStats(MinStat), 0, Defined("Swift Runner"), Undefined>>,
      <<UniformStats(SchemaMaxStat), 1, Undefined, Defined("Super Sprint")>> }

\* the filters the user adds with the filter panel, each at most once: on a
\* stat, on the ability and on the grade (the panel adds no filter on the
\* name)
PairingFilters ==
    { [type |-> "stat", stat |-> "maxSpeed", parent |-> "all",
       minValue |-> SchemaMaxStat],
      [type |-> "ability", ability |-> "None"],
      [type |-> "grade", minValue |-> MaxGrade] }

\* filters the list is grown to
MaxFilters == 2

\* the filter as addStatFilter is given it: the fields without the id
WithoutId(filter) == [k \in DOMAIN filter \ {"id"} |-> filter[k]]

PairingInit ==
    /\ \E n \in 0..MaxChocobos :
         \E made \in [1..n -> {"male", "female"} \X PairingKinds] :
            chocobos = [k \in 1..n |->
                           [Chocobo(k, made[k][1], NoGrade,
                                    made[k][2][1], made[k][2][2],
                                    toISOString(0), toISOString(0))
                            EXCEPT !.name = made[k][2][3],
                                   !.ability = made[k][2][4]]]
    /\ optimalPair = <<>>
    /\ statFilters = <<>>
    /\ sortType = "quality"
    /\ sortOrder = "desc"
    /\ isEditMode = FALSE
    /\ frozenMaleSortOrder = <<>>
    /\ frozenFemaleSortOrder = <<>>
    /\ frozenFilteredIds = <<>>
    /\ pendingChangesWhileEditing = FALSE
    /\ superSprint = FALSE
    /\ NoDirectCall
    /\ clock = 0

PairingNext ==
    \/ findOptimalBreedingPair
    \/ clearOptimalPair
    \/ \E flag \in BOOLEAN : setSuperSprint(flag)
    \/ \E filter \in PairingFilters :
          /\ Len(statFilters) < MaxFilters
          /\ \A k \in 1..Len(statFilters) :
                 WithoutId(statFilters[k]) # filter
          /\ addStatFilter(filter)
    \/ clearAllFilters
    \/ \E newSortOrder \in {"asc", "desc"} : setSortOrder(newSortOrder)

SpecPairing == PairingInit /\ [][PairingNext]_vars

(***************************************************************************)
(* StatValueSchema.parse (SpecParse)                                       *)
(***************************************************************************)
\* largest magnitude of a number handed to the schema
MaxParsedMagnitude == 30

\* a number is held as twice its value, so that halves are numbers too
ParsedNumbers ==
    {[twice |-> t] : t \in (0 - 2 * MaxParsedMagnitude)..(2 * MaxParsedMagnitude)}

\* z.number().int()
IsInt(number) == number.twice % 2 = 0

\* z.number().int().min(1).max(4), applied by parse: the value, or a throw
StatValueSchema(number) ==
    IF /\ IsInt(number)
       /\ number.twice >= 2 * MinStat
       /\ number.twice <= 2 * SchemaMaxStat
    THEN [outcome |-> "returns", value |-> number.twice \div 2]
    ELSE [outcome |-> "throws"]

ParseInit ==
    /\ fnArgs \in ParsedNumbers
    /\ pc = "called"
    /\ fnResult = <<>>
    /\ argSprint = FALSE
    /\ argParent1 = ParentData("male", UniformStats(MinStat), DefaultCoveringsLeft)
    /\ argParent2 = ParentData("female", UniformStats(MinStat), DefaultCoveringsLeft)
    /\ result = NaN
    /\ allCombos = <<>>
    /\ children = <<>>
    /\ StoreConstructed
    /\ clock = 0

\* one call StatValueSchema.parse(number) returns or throws
ParseStatValue ==
    /\ pc = "called"
    /\ fnResult' = StatValueSchema(fnArgs)
    /\ pc' = "returned"
    /\ UNCHANGED <<argParent1, argParent2, argSprint, result, allCombos,
                   children, fnArgs>>
    /\ UNCHANGED <<storeVars, clock>>

ParseNext == ParseStatValue

SpecParse == ParseInit /\ [][ParseNext]_vars

(***************************************************************************)
(* evaluateStatPotential (SpecPotential)                                   *)
(***************************************************************************)
\* the values a grandparent stat is given: 1 up to the 5 the tests pass
GrandparentValues == MinStat..RankedMaxStat

Max2(a, b) == IF a > b THEN a ELSE b

\* Math.max(...possibleValues)
MathMax(possibleValues) ==
    Max2(Max2(possibleValues[1], possibleValues[2]),
         Max2(possibleValues[3], possibleValues[4]))

\* Math.min(...possibleValues)
MathMin(possibleValues) ==
    Min2(Min2(possibleValues[1], possibleValues[2]),
         Min2(possibleValues[3], possibleValues[4]))

\* possibleValues.reduce((a, b) => a + b, 0)
SumValues(possibleValues) ==
    (((0 + possibleValues[1]) + possibleValues[2]) + possibleValues[3])
        + possibleValues[4]

\* the average is the exact quotient sum / length, held as the two numbers
evaluateStatPotential(maleFatherStat, maleMotherStat, femaleFatherStat, femaleMotherStat) ==
    LET possibleValues == <<maleFatherStat, maleMotherStat,
                            femaleFatherStat, femaleMotherStat>>
    IN  [best       |-> MathMax(possibleValues),
         worst      |-> MathMin(possibleValues),
         average    |-> [sum |-> SumValues(possibleValues),
                         length |-> Len(possibleValues)],
         hasPerfect |-> \A i \in 1..Len(possibleValues) :
                            possibleValues[i] = RankedMaxStat]

PotentialInit ==
    /\ fnArgs \in [maleFatherStat : GrandparentValues,
                   maleMotherStat : GrandparentValues,
                   femaleFatherStat : GrandparentValues,
                   femaleMotherStat : GrandparentValues]
    /\ pc = "called"
    /\ fnResult = <<>>
    /\ argSprint = FALSE
    /\ argParent1 = ParentData("male", UniformStats(MinStat), DefaultCoveringsLeft)
    /\ argParent2 = ParentData("female", UniformStats(MinStat), DefaultCoveringsLeft)
    /\ result = NaN
    /\ allCombos = <<>>
    /\ children = <<>>
    /\ StoreConstructed
    /\ clock = 0

\* one call of evaluateStatPotential returns
EvaluateStatPotential ==
    /\ pc = "called"
    /\ fnResult' = evaluateStatPotential(fnArgs.maleFatherStat,
                                         fnArgs.maleMotherStat,
                                         fnArgs.femaleFatherStat,
                                         fnArgs.femaleMotherStat)
    /\ pc' = "returned"
    /\ UNCHANGED <<argParent1, argParent2, argSprint, result, allCombos,
                   children, fnArgs>>
    /\ UNCHANGED <<storeVars, clock>>

PotentialNext == EvaluateStatPotential

SpecPotential == PotentialInit /\ [][PotentialNext]_vars

(***************************************************************************)
(* calculateBreedingScore (SpecScore)                                      *)
(***************************************************************************)
\* points of a stat whose four grandparent values are all perfect
PerfectStatScore == 100

\* the one-digit decimal strings, "0" first
DigitStrings == <<"0", "1", "2", "3", "4", "5", "6", "7", "8", "9">>

\* parseInt of a one-digit decimal string
parseInt(string) ==
    CHOOSE d \in 0..(Len(DigitStrings) - 1) : DigitStrings[d + 1] = string

\* (father, mother) strings a ChocoboParentData is given for one stat
ScoreMaxSpeedOptions == {<<"5", "5">>, <<"3", "3">>, <<"4", "5">>}
ScoreAccelerationOptions == {<<"5", "5">>, <<"3", "3">>, <<"5", "4">>}
ScoreEnduranceOptions == {<<"5", "5">>, <<"3", "3">>}
ScoreStaminaOptions == {<<"5", "5">>, <<"3", "3">>}
ScoreCunningOptions == {<<"5", "5">>, <<"3", "3">>, <<"1", "2">>}

\* ChocoboParentData records (stats are strings)
ScoreParents(gender) ==
    {[gender |-> gender,
      fatherMaxSpeed |-> ms[1], motherMaxSpeed |-> ms[2],
      fatherAcceleration |-> ac[1], motherAcceleration |-> ac[2],
      fatherEndurance |-> en[1], motherEndurance |-> en[2],
      fatherStamina |-> st[1], motherStamina |-> st[2],
      fatherCunning |-> cu[1], motherCunning |-> cu[2]] :
        ms \in ScoreMaxSpeedOptions, ac \in ScoreAccelerationOptions,
        en \in ScoreEnduranceOptions, st \in ScoreStaminaOptions,
        cu \in ScoreCunningOptions}

\* the local stats: per stat the parsed male (m) and female (f) values
ScoreStats(male, female) ==
    << [m |-> <<parseInt(male.fatherMaxSpeed), parseInt(male.motherMaxSpeed)>>,
        f |-> <<parseInt(female.fatherMaxSpeed), parseInt(female.motherMaxSpeed)>>],
       [m |-> <<parseInt(male.fatherAcceleration), parseInt(male.motherAcceleration)>>,
        f |-> <<parseInt(female.fatherAcceleration), parseInt(female.motherAcceleration)>>],
       [m |-> <<parseInt(male.fatherEndurance), parseInt(male.motherEndurance)>>,
        f |-> <<parseInt(female.fatherEndurance), parseInt(female.motherEndurance)>>],
       [m |-> <<parseInt(male.fatherStamina), parseInt(male.motherStamina)>>,
        f |-> <<parseInt(female.fatherStamina), parseInt(female.motherStamina)>>],
       [m |-> <<parseInt(male.fatherCunning), parseInt(male.motherCunning)>>,
        f |-> <<parseInt(female.fatherCunning), parseInt(female.motherCunning)>>] >>

\* statScore of one stat, held as twice its value (average * 10 is a
\* multiple of one half: sum * 10 / 4)
StatScoreTwice(stat) ==
    LET potential == evaluateStatPotential(stat.m[1], stat.m[2],
                                           stat.f[1], stat.f[2])
    IN  IF potential.hasPerfect
        THEN 2 * PerfectStatScore
        ELSE 2 * (potential.best * 20)
             + (potential.average.sum * 2 * 10) \div potential.average.length
             - 2 * ((5 - potential.worst) * 5)

RECURSIVE TotalScoreTwice(_, _)
\* stats.forEach from index i on: totalScore += statScore
TotalScoreTwice(stats, i) ==
    IF i > Len(stats) THEN 0
    ELSE StatScoreTwice(stats[i]) + TotalScoreTwice(stats, i + 1)

\* the returned totalScore, held as twice its value
calculateBreedingScore(male, female) ==
    [twice |-> TotalScoreTwice(ScoreStats(male, female), 1)]

ScoreInit ==
    /\ fnArgs \in [male : ScoreParents("male"), female : ScoreParents("female")]
    /\ pc = "called"
    /\ fnResult = <<>>
    /\ argSprint = FALSE
    /\ argParent1 = ParentData("male", UniformStats(MinStat), DefaultCoveringsLeft)
    /\ argParent2 = ParentData("female", UniformStats(MinStat), DefaultCoveringsLeft)
    /\ result = NaN
    /\ allCombos = <<>>
    /\ children = <<>>
    /\ StoreConstructed
    /\ clock = 0

\* one call of calculateBreedingScore returns
CalculateBreedingScore ==
    /\ pc = "called"
    /\ fnResult' = calculateBreedingScore(fnArgs.male, fnArgs.female)
    /\ pc' = "returned"
    /\ UNCHANGED <<argParent1, argParent2, argSprint, result, allCombos,
                   children, fnArgs>>
    /\ UNCHANGED <<storeVars, clock>>

ScoreNext == CalculateBreedingScore

SpecScore == ScoreInit /\ [][ScoreNext]_vars

(***************************************************************************)
(* exportData and importData                                               *)
(***************************************************************************)
\* lower bound of coveringsLeft in ChocoboSchema
MinCoveringsLeft == 0

\* ids are numbers standing for UUID strings; 0 stands for a string that is
\* no UUID
IsUuid(id) == id >= 1

\* a JSON value held with its type, for the fields whose schema tests that
\* the value is a string
JsonString(string) == [json |-> "string", value |-> string]
JsonNumber(number) == [json |-> "number", number |-> number]

\* the fields of a Chocobo that are not undefined
DefinedFields(c) ==
    {"id", "gender", "stats", "coveringsLeft"}
    \cup (IF c.name = Undefined THEN {} ELSE {"name"})
    \cup (IF c.grade = NoGrade THEN {} ELSE {"grade"})
    \cup (IF c.ability = Undefined THEN {} ELSE {"ability"})
    \cup (IF c.createdAt = Undefined THEN {} ELSE {"createdAt"})
    \cup (IF c.updatedAt = Undefined THEN {} ELSE {"updatedAt"})

\* JSON.stringify of a Chocobo: a field that is undefined is left out
ChocoboJson(c) ==
    [k \in DefinedFields(c) |->
        IF k \in {"name", "ability", "createdAt", "updatedAt"}
        THEN JsonString(c[k][1])
        ELSE c[k]]

\* the array a map(...) call returns, as a sequence whose elements are
\* computed once
ArrayOf(elements) == elements \o <<>>

\* a JSON text: well-formed text is held as the data JSON.parse returns
JsonText(data) == [syntax |-> "json", data |-> data]
MalformedText == [syntax |-> "malformed"]

\* the text exportData returns for the current state when it reads the
\* clock at now
ExportText(now) ==
    JsonText([version |-> "1.0",
              exportedAt |-> JsonString(toISOString(now)),
              chocobos |-> ArrayOf([k \in 1..Len(chocobos) |->
                                       ChocoboJson(chocobos[k])])])

\* the keys of ChocoboStatsSchema
StatFields == DOMAIN UniformStats(MinStat)

\* ChocoboStatsSchema.parse succeeds: the ten stats are there and valid
\* (keys the schema does not name are allowed)
StatsValid(stats) ==
    /\ StatFields \subseteq DOMAIN stats
    /\ \A k \in StatFields :
           StatValueSchema([twice |-> 2 * stats[k]]).outcome = "returns"

\* z.string().datetime() succeeds on a JSON value
DatetimeValid(json) == json.json = "string" /\ IsDatetime(json.value)

\* ChocoboSchema.parse succeeds
ChocoboValid(data) ==
    /\ {"id", "gender", "stats"} \subseteq DOMAIN data
    /\ IsUuid(data.id)
    /\ data.gender \in {"male", "female"}
    /\ "name" \in DOMAIN data => data.name.json = "string"
    /\ "grade" \in DOMAIN data => data.grade \in MinGrade..MaxGrade
    /\ "ability" \in DOMAIN data
           => /\ data.ability.json = "string"
              /\ data.ability.value \in ChocoboAbilitySchema
    /\ StatsValid(data.stats)
    /\ "coveringsLeft" \in DOMAIN data
           => data.coveringsLeft \in MinCoveringsLeft..MaxCoveringsLeft
    /\ "createdAt" \in DOMAIN data => DatetimeValid(data.createdAt)
    /\ "updatedAt" \in DOMAIN data => DatetimeValid(data.updatedAt)

\* an optional string field of parsed data
OptionalString(data, key) ==
    IF key \in DOMAIN data THEN Defined(data[key].value) ELSE Undefined

\* the value ChocoboSchema.parse returns for valid data: the fields of the
\* schema and no other, of stats the ten of ChocoboStatsSchema; a missing
\* coveringsLeft gets the default, other missing fields stay undefined
ChocoboParsed(data) ==
    [id |-> data.id,
     gender |-> data.gender,
     name |-> OptionalString(data, "name"),
     grade |-> IF "grade" \in DOMAIN data THEN data.grade ELSE NoGrade,
     ability |-> OptionalString(data, "ability"),
     stats |-> [k \in StatFields |-> data.stats[k]],
     coveringsLeft |-> IF "coveringsLeft" \in DOMAIN data
                       THEN data.coveringsLeft ELSE DefaultCoveringsLeft,
     createdAt |-> OptionalString(data, "createdAt"),
     updatedAt |-> OptionalString(data, "updatedAt")]

\* validateChocobo: ChocoboSchema.parse(data), the value or a throw
validateChocobo(data) ==
    IF ChocoboValid(data)
    THEN [outcome |-> "returns", value |-> ChocoboParsed(data)]
    ELSE [outcome |-> "throws"]

\* validateExport: ChocoboExportSchema.parse(data), the value or a throw
validateExport(data) ==
    IF /\ {"version", "exportedAt", "chocobos"} \subseteq DOMAIN data
       /\ data.version = "1.0"
       /\ DatetimeValid(data.exportedAt)
       /\ \A k \in 1..Len(data.chocobos) : ChocoboValid(data.chocobos[k])
    THEN [outcome |-> "returns",
          value |-> [version |-> data.version,
                     exportedAt |-> data.exportedAt.value,
                     chocobos |-> ArrayOf([k \in 1..Len(data.chocobos) |->
                                              ChocoboParsed(data.chocobos[k])])]]
    ELSE [outcome |-> "throws"]

\* a chocobo with one of the ten stats above 4
NeedsMigration(chocobo) ==
    \E k \in StatFields : chocobo.stats[k] > SchemaMaxStat

\* migrateChocoboStats: every one of the ten stats above 4 becomes 4; the
\* clock is read, at now, when there is such a stat
migrateChocoboStats(chocobo, now) ==
    LET hadChanges == NeedsMigration(chocobo)
        stats == [k \in DOMAIN chocobo.stats |->
                     IF k \in StatFields /\ chocobo.stats[k] > SchemaMaxStat
                     THEN SchemaMaxStat
                     ELSE chocobo.stats[k]]
    IN  [chocobo |-> IF hadChanges
                     THEN [chocobo EXCEPT
                              !.stats = stats,
                              !.updatedAt = Defined(toISOString(now))]
                     ELSE chocobo,
         hadChanges |-> hadChanges]

\* the error importData throws: the message is the prefix followed by the
\* message of the error caught
ImportError(detail) ==
    [outcome |-> "throws",
     message |-> [prefix |-> "Failed to import data: ", detail |-> detail]]

\* list.map(migrateChocoboStats): the clock is read, at the instants times
\* in turn, for the chocobos that need the migration
MigratedList(list, times) ==
    LET positions == {k \in 1..Len(list) : NeedsMigration(list[k])}
    IN  ArrayOf([k \in 1..Len(list) |->
                    migrateChocoboStats(
                        list[k],
                        IF k \in positions
                        THEN ReadingAt(positions, times, k) ELSE 0)])

\* the readings of the clock a call maps migrateChocoboStats over list with
MigrationReadings(list) ==
    ClockReadings(clock,
                  Cardinality({k \in 1..Len(list) : NeedsMigration(list[k])}))

\* importData(jsonString) up to the migration: the error thrown, or the
\* chocobos that passed validateExport and validateChocobo
ImportValidated(jsonString) ==
    IF jsonString.syntax # "json"
    THEN [result |-> ImportError("SyntaxError"), set |-> FALSE]
    ELSE LET validated == validateExport(jsonString.data)
         IN  IF validated.outcome = "throws"
             THEN [result |-> ImportError("ZodError"), set |-> FALSE]
             ELSE LET list == validated.value.chocobos
                      revalidated ==
                          ArrayOf([k \in 1..Len(list) |->
                                      validateChocobo(ChocoboJson(list[k]))])
                  IN  IF \E k \in 1..Len(list) :
                             revalidated[k].outcome = "throws"
                      THEN [result |-> ImportError("ZodError"), set |-> FALSE]
                      ELSE [set |-> TRUE,
                            list |-> ArrayOf([k \in 1..Len(list) |->
                                                 revalidated[k].value])]

\* what the rest of the call does with the validated chocobos: the value
\* returned, the collection it sets and the last reading of the clock
ImportOutcome(validated, times) ==
    IF ~validated.set
    THEN [result |-> validated.result, set |-> FALSE, clock |-> clock]
    ELSE LET migrated == MigratedList(validated.list, times)
         IN  [result |->
                  [outcome |-> "returns",
                   value |-> \E k \in 1..Len(migrated) :
                                 migrated[k].hadChanges],
              set |-> TRUE,
              validatedChocobos |->
                  ArrayOf([k \in 1..Len(migrated) |-> migrated[k].chocobo]),
              clock |-> LastReading(clock, times)]

\* the readings of the clock the rest of the call makes
ImportReadings(validated) ==
    IF validated.set THEN MigrationReadings(validated.list) ELSE {<<>>}

\* exportData returns the text; the state is left alone
exportData ==
    \E now \in clock..MaxClock :
        /\ fnResult' = ExportText(now)
        /\ pc' = "exportData"
        /\ clock' = now
        /\ UNCHANGED <<argParent1, argParent2, argSprint, result, allCombos,
                       children, fnArgs>>
        /\ UNCHANGED storeVars

\* mutant of importData: the collection is emptied before the text is read
importData_ClearsFirst(jsonString) ==
    LET validated == ImportValidated(jsonString)
    IN  \E times \in ImportReadings(validated) :
            LET imported == ImportOutcome(validated, times)
            IN  /\ fnArgs' = jsonString
                /\ fnResult' = imported.result
                /\ pc' = "importData"
                /\ clock' = imported.clock
                /\ IF imported.set
                   THEN /\ chocobos' = imported.validatedChocobos
                        /\ optimalPair' = <<>>
                   ELSE /\ chocobos' = <<>>
                        /\ optimalPair' = <<>>
                /\ UNCHANGED <<statFilters, superSprint, sortVars, editVars>>
                /\ UNCHANGED <<argParent1, argParent2, argSprint, result,
                               allCombos, children>>

\* mutant of importData: the imported chocobos are added to the collection
importData_Appends(jsonString) ==
    LET validated == ImportValidated(jsonString)
    IN  \E times \in ImportReadings(validated) :
            LET imported == ImportOutcome(validated, times)
            IN  /\ fnArgs' = jsonString
                /\ fnResult' = imported.result
                /\ pc' = "importData"
                /\ clock' = imported.clock
                /\ IF imported.set
                   THEN /\ chocobos' = chocobos \o imported.validatedChocobos
                        /\ optimalPair' = <<>>
                   ELSE UNCHANGED <<chocobos, optimalPair>>
                /\ UNCHANGED <<statFilters, superSprint, sortVars, editVars>>
                /\ UNCHANGED <<argParent1, argParent2, argSprint, result,
                               allCombos, children>>

\* importData(jsonString): fnArgs keeps the argument, fnResult the returned
\* hadAnyChanges or the error thrown
importData(jsonString) ==
    LET validated == ImportValidated(jsonString)
    IN  \E times \in ImportReadings(validated) :
            LET imported == ImportOutcome(validated, times)
            IN  /\ fnArgs' = jsonString
                /\ fnResult' = imported.result
                /\ pc' = "importData"
                /\ clock' = imported.clock
                /\ IF imported.set
                   THEN /\ chocobos' = imported.validatedChocobos
                        /\ optimalPair' = <<>>
                   ELSE UNCHANGED <<chocobos, optimalPair>>
                /\ UNCHANGED <<statFilters, superSprint, sortVars, editVars>>
                /\ UNCHANGED <<argParent1, argParent2, argSprint, result,
                               allCombos, children>>

(***************************************************************************)
(* SpecStore: the store from the state it starts in (as constructed, or    *)
(* with a saved state loaded and migrated), under the handlers that change *)
(* the collection and optimalPair.  Stats and coveringsLeft are given the  *)
(* values the cards of the user interface pass; the first cards are        *)
(* edited, the last cards removed.  breedOptimalPair is called in every    *)
(* state, with or without a pair.  Every reading of the clock returns any  *)
(* instant up to MaxClock that is not before the reading made last.        *)
(***************************************************************************)
\* chocobos the collection is grown to by addChocobo
MaxStoreChocobos == 2

\* the highest coveringsLeft the user types into a card
LowCoverings == 1

\* cards (positions of the collection, from the first) whose fields the
\* user edits
EditedCards == 1

\* cards (positions of the collection, from the last) the user removes
RemovedCards == 1

\* coveringsLeft values passed to updateChocobo
UpdatedCoverings == MinCoveringsLeft..LowCoverings

\* stats passed to updateChocoboStats
UpdatedStats == {[fatherMaxSpeed |-> SchemaMaxStat]}

\* an instant of an earlier session, as toISOString writes it, without the
\* fraction, and without the seconds
SavedAt == "2024-06-01T12:00:00.000Z"
Earlier == "2024-06-01T12:00:00Z"
EarlierMinute == "2024-06-01T12:00Z"

\* stats with a key ChocoboStatsSchema does not name
ForeignStats ==
    [k \in StatFields \cup {"selfMaxSpeed"} |->
        IF k \in StatFields THEN SchemaMaxStat ELSE MinStat]

\* an export written by another session: a graded male with a name, an
\* ability, a createdAt, and keys the schemas do not name; a female whose
\* optional fields are all left out
ForeignChocobos ==
    << [id |-> 1, gender |-> "male", name |-> JsonString("Swift Runner"),
        grade |-> 3, ability |-> JsonString("Super Sprint"),
        stats |-> ForeignStats, coveringsLeft |-> 1,
        createdAt |-> JsonString(Earlier), note |-> JsonNumber(1)],
       [id |-> 2, gender |-> "female", stats |-> UniformStats(2)] >>

\* a legacy export: one stat of the male is 5
LegacyChocobos ==
    << [id |-> 1, gender |-> "male",
        stats |-> [UniformStats(SchemaMaxStat) EXCEPT
                       !.fatherMaxSpeed = RankedMaxStat],
        coveringsLeft |-> 1] >>

ExportOf(version, exportedAt, list) ==
    JsonText([version |-> version, exportedAt |-> JsonString(exportedAt),
              chocobos |-> list])

ForeignText == ExportOf("1.0", EarlierMinute, ForeignChocobos)
LegacyText == ExportOf("1.0", SavedAt, LegacyChocobos)

\* texts that are no valid export: no JSON, another version, no datetime,
\* no chocobos field, coveringsLeft above 10, an id that is no UUID, a
\* createdAt that is no datetime, an updatedAt with a day its month does not
\* have, an ability outside the enum, a name that is a number, a stat left
\* out
InvalidTexts ==
    { MalformedText,
      ExportOf("2.0", SavedAt, ForeignChocobos),
      ExportOf("1.0", "yesterday", ForeignChocobos),
      JsonText([version |-> "1.0", exportedAt |-> JsonString(SavedAt)]),
      ExportOf("1.0", SavedAt,
               <<[ForeignChocobos[1] EXCEPT !.coveringsLeft = MaxCoveringsLeft + 1]>>),
      ExportOf("1.0", SavedAt,
               <<[ForeignChocobos[1] EXCEPT !.id = 0]>>),
      ExportOf("1.0", SavedAt,
               <<[ForeignChocobos[1] EXCEPT
                      !.createdAt = JsonString("yesterday")]>>),
      ExportOf("1.0", SavedAt,
               <<[k \in DOMAIN ForeignChocobos[2] \cup {"updatedAt"} |->
                     IF k = "updatedAt" THEN JsonString("2025-02-30T00:00:00Z")
                     ELSE ForeignChocobos[2][k]]>>),
      ExportOf("1.0", SavedAt,
               <<[ForeignChocobos[1] EXCEPT
                      !.ability = JsonString("Flying")]>>),
      ExportOf("1.0", SavedAt,
               <<[ForeignChocobos[1] EXCEPT !.name = JsonNumber(42)]>>),
      ExportOf("1.0", SavedAt,
               <<[ForeignChocobos[2] EXCEPT
                      !.stats = [k \in StatFields \ {"motherCunning"} |->
                                    MinStat]]>>) }

\* the texts handed to importData: those above and the export of the
\* current state, made at the instant the clock was last read at
ImportTexts == InvalidTexts \cup {ForeignText, LegacyText, ExportText(clock)}

\* the texts handed to importData in SpecStore
StoreImportTexts == {MalformedText, ForeignText}

\* the state persist wrote to "chocobo-storage" in an earlier session (it
\* writes every field of the store that is no function): the collection
\* list and the pair, the other fields as the store is constructed
SavedState(list, pair) ==
    [chocobos |-> list, optimalPair |-> pair, statFilters |-> <<>>,
     superSprint |-> FALSE, sortType |-> "quality", sortOrder |-> "desc",
     isEditMode |-> FALSE, frozenMaleSortOrder |-> <<>>,
     frozenFemaleSortOrder |-> <<>>, frozenFilteredIds |-> <<>>,
     pendingChangesWhileEditing |-> FALSE]

\* chocobos saved by a version whose stats went up to 5, and chocobos
\* whose stats are within 1..4
SavedLegacyMale ==
    Chocobo(1, "male", NoGrade,
            [UniformStats(MinStat) EXCEPT !.fatherMaxSpeed = RankedMaxStat],
            DefaultCoveringsLeft, SavedAt, SavedAt)
SavedMale ==
    Chocobo(1, "male", NoGrade, UniformStats(2), DefaultCoveringsLeft,
            SavedAt, SavedAt)
SavedLegacyFemale ==
    Chocobo(2, "female", NoGrade, UniformStats(RankedMaxStat),
            DefaultCoveringsLeft, SavedAt, SavedAt)
SavedFemale ==
    Chocobo(3, "female", NoGrade, UniformStats(MinStat),
            DefaultCoveringsLeft, SavedAt, SavedAt)

\* the saved states the program is started with: one legacy chocobo; a
\* valid male, a legacy female and a valid female with the pair a search
\* had stored
SavedStates ==
    { SavedState(<<SavedLegacyMale>>, <<>>),
      SavedState(<<SavedMale, SavedLegacyFemale, SavedFemale>>,
                 SearchPairs(<<SavedMale>>, <<SavedLegacyFemale, SavedFemale>>,
                             1, 1, <<>>, NegInfinity, FALSE)) }

\* what getItem("chocobo-storage") returns: null or a saved state
Storage == {Undefined} \cup {Defined(state) : state \in SavedStates}

\* the callback of onRehydrateStorage, run on the saved state merged into
\* the constructed store: the collection is replaced by the migrated one
\* when a chocobo needed the migration
onRehydrateStorage(state, times) ==
    LET migrated == MigratedList(state.chocobos, times)
        hadLegacyData == \E k \in 1..Len(migrated) : migrated[k].hadChanges
    IN  IF hadLegacyData
        THEN [state EXCEPT
                 !.chocobos = ArrayOf([k \in 1..Len(migrated) |->
                                          migrated[k].chocobo])]
        ELSE state

\* the store holds the fields of state
StoreHolds(state) ==
    /\ chocobos = state.chocobos
    /\ optimalPair = state.optimalPair
    /\ statFilters = state.statFilters
    /\ superSprint = state.superSprint
    /\ sortType = state.sortType
    /\ sortOrder = state.sortOrder
    /\ isEditMode = state.isEditMode
    /\ frozenMaleSortOrder = state.frozenMaleSortOrder
    /\ frozenFemaleSortOrder = state.frozenFemaleSortOrder
    /\ frozenFilteredIds = state.frozenFilteredIds
    /\ pendingChangesWhileEditing = state.pendingChangesWhileEditing

\* the store after persist has loaded the storage: as constructed when
\* nothing is saved, else the saved state after onRehydrateStorage
Rehydrated(item) ==
    IF item = Undefined
    THEN StoreConstructed /\ clock = 0
    ELSE \E times \in ClockReadings(
                          0, Cardinality({k \in 1..Len(item[1].chocobos) :
                                           NeedsMigration(item[1].chocobos[k])})) :
             /\ StoreHolds(onRehydrateStorage(item[1], times))
             /\ clock = LastReading(0, times)

StoreInit ==
    /\ \E item \in Storage : Rehydrated(item)
    /\ NoDirectCall

StoreNext ==
    \/ \E gender \in {"male", "female"} :
           Len(chocobos) < MaxStoreChocobos /\ addChocobo(gender)
    \/ \E k \in 1..Len(chocobos) :
           k > Len(chocobos) - RemovedCards /\ removeChocobo(chocobos[k].id)
    \/ \E k \in 1..Min2(Len(chocobos), EditedCards), v \in UpdatedCoverings :
           updateChocobo(chocobos[k].id, [coveringsLeft |-> v])
    \/ \E k \in 1..Min2(Len(chocobos), EditedCards), stats \in UpdatedStats :
           updateChocoboStats(chocobos[k].id, stats)
    \/ findOptimalBreedingPair
    \/ clearOptimalPair
    \/ breedOptimalPair
    \/ \E jsonString \in StoreImportTexts : importData(jsonString)

SpecStore == StoreInit /\ [][StoreNext]_vars

(***************************************************************************)
(* SpecImport: the store from the state it starts in under exportData and  *)
(* importData, with the handlers that build the collection exported        *)
(***************************************************************************)
\* chocobos the collection is grown to by addChocobo
MaxImportChocobos == 1

\* fields passed to updateChocobo: a grade, the highest coveringsLeft, a
\* name, or an ability
ImportUpdates ==
    { [grade |-> 3], [coveringsLeft |-> MaxCoveringsLeft],
      [name |-> Defined("Swift Runner")],
      [ability |-> Defined("Super Sprint")] }

ImportNext ==
    \/ \E gender \in {"male", "female"} :
           Len(chocobos) < MaxImportChocobos /\ addChocobo(gender)
    \/ \E k \in 1..Min2(Len(chocobos), EditedCards), updates \in ImportUpdates :
           updateChocobo(chocobos[k].id, updates)
    \/ findOptimalBreedingPair
    \/ exportData
    \/ \E jsonString \in ImportTexts : importData(jsonString)

SpecImport == StoreInit /\ [][ImportNext]_vars

(***************************************************************************)
(* SpecEdit: the store from the state it starts in under edit mode, the    *)
(* filter and sort handlers and the handlers that change the collection    *)
(***************************************************************************)
\* chocobos the collection is grown to by addChocobo
MaxEditChocobos == 1

\* ids handed out before addChocobo is called no more (the frozen lists keep
\* the ids of removed chocobos)
MaxEditIds == 3

\* stats passed to updateChocoboStats, one star a call: the father's max
\* speed raised to the value the filter asks for, or lowered again
EditedStats == {[fatherMaxSpeed |-> SchemaMaxStat], [fatherMaxSpeed |-> MinStat]}

\* the filters the user adds, each at most once: one parent's max speed
EditFilters ==
    { [type |-> "stat", stat |-> "maxSpeed", parent |-> "one",
       minValue |-> SchemaMaxStat] }

SortTypes == {"quality", "locked", "fiveStars"}
SortOrders == {"asc", "desc"}

EditNext ==
    \/ \E gender \in {"male", "female"} :
           /\ Len(chocobos) < MaxEditChocobos
           /\ Cardinality(IdsInUse) < MaxEditIds
           /\ addChocobo(gender)
    \/ \E k \in 1..Len(chocobos) : removeChocobo(chocobos[k].id)
    \/ \E k \in 1..Len(chocobos), stats \in EditedStats :
           updateChocoboStats(chocobos[k].id, stats)
    \/ \E filter \in EditFilters :
           /\ \A k \in 1..Len(statFilters) :
                  WithoutId(statFilters[k]) # filter
           /\ addStatFilter(filter)
    \/ \E k \in 1..Len(statFilters) : removeStatFilter(statFilters[k].id)
    \/ clearAllFilters
    \/ \E newSortType \in SortTypes : setSortType(newSortType)
    \/ \E newSortOrder \in SortOrders : setSortOrder(newSortOrder)
    \/ \E newIsEditMode \in BOOLEAN : setEditMode(newIsEditMode)

SpecEdit == StoreInit /\ [][EditNext]_vars

(***************************************************************************)
(* Properties of evaluateBreedingPair (SpecEval)                           *)
(***************************************************************************)
AllelesOf(parent) ==
    {parent.fatherMaxSpeed, parent.fatherAcceleration, parent.fatherEndurance,
     parent.fatherStamina, parent.fatherCunning, parent.motherMaxSpeed,
     parent.motherAcceleration, parent.motherEndurance, parent.motherStamina,
     parent.motherCunning}

Returned == pc = "returned"

\* min(9, coveringsLeft of parent 1, coveringsLeft of parent 2) of the call
\* in the current state, written out independently of siblingsOf
CallSiblings ==
    IF argParent1.coveringsLeft <= argParent2.coveringsLeft
    THEN (IF argParent1.coveringsLeft <= 9 THEN argParent1.coveringsLeft ELSE 9)
    ELSE (IF argParent2.coveringsLeft <= 9 THEN argParent2.coveringsLeft ELSE 9)

WellFormedCoverings ==
    /\ argParent1.coveringsLeft \in 0..MaxCoveringsLeft
    /\ argParent2.coveringsLeft \in 0..MaxCoveringsLeft

BothFullyLocked ==
    /\ AllelesOf(argParent1) = {RankedMaxStat}
    /\ AllelesOf(argParent2) = {RankedMaxStat}

BothAtMinimum ==
    /\ AllelesOf(argParent1) = {MinStat}
    /\ AllelesOf(argParent2) = {MinStat}

\* the scores 0, 511.5 and 1023
ScoreZero == Finite(ZeroLimbs)
ScoreHalfway == Finite(<<0, 0, 0, 0, 0, 0, 0, 0, 512, 511>>)
ScoreCeiling == Finite(<<0, 0, 0, 0, 0, 0, 0, 0, 0, 1023>>)

\* C1 (as claimed): two fully locked parents score the ceiling rank 1023 for
\* every siblings value >= 1, in particular with 9 attempts on both parents.
C1_PerfectionScoresCeiling ==
    (Returned /\ WellFormedCoverings /\ BothFullyLocked /\ CallSiblings >= 1)
        => result = ScoreCeiling

\* C3: if either parent has coveringsLeft = 0 and the other one any value in
\* 0..10, the returned score is exactly 0, for any stats and either mode.
C3_ZeroAttemptsFloor ==
    (/\ Returned
     /\ WellFormedCoverings
     /\ (argParent1.coveringsLeft = 0 \/ argParent2.coveringsLeft = 0))
        => result = ScoreZero

C3_Witness ==
    /\ Returned
    /\ argParent1.coveringsLeft = 0
    /\ argParent2.coveringsLeft = 9
    /\ BothFullyLocked
    /\ result = ScoreZero

\* C4: the score depends on the two coveringsLeft values only through
\* min(9, c1, c2): a call with the two coveringsLeft values swapped returns
\* the score of this call, and so does a call in which a value of 10 is
\* replaced by 9.
SwappedCoverings(parent, other) ==
    [parent EXCEPT !.coveringsLeft = other.coveringsLeft]

TenAsNine(parent) ==
    [parent EXCEPT !.coveringsLeft = IF @ = 10 THEN 9 ELSE @]

C4_OnlyMinimumOfCoverings ==
    (Returned /\ WellFormedCoverings) =>
        /\ evaluateBreedingPair(SwappedCoverings(argParent1, argParent2),
                                SwappedCoverings(argParent2, argParent1),
                                argSprint) = result
        /\ evaluateBreedingPair(TenAsNine(argParent1), TenAsNine(argParent2),
                                argSprint) = result

C4_Witness ==
    /\ Returned
    /\ argParent1.coveringsLeft = 10
    /\ argParent2.coveringsLeft = 2
    /\ result # ScoreZero

\* C5: with stats and mode fixed, raising siblings from k to k + 1 (k in
\* 0..8) strictly increases the score, or leaves it unchanged when it already
\* is the ceiling 1023; it never decreases.
WithCoverings(parent, c) == [parent EXCEPT !.coveringsLeft = c]

C5_MonotoneInSiblings ==
    (Returned /\ WellFormedCoverings /\ CallSiblings <= 8) =>
        LET raised == evaluateBreedingPair(
                          WithCoverings(argParent1, CallSiblings + 1),
                          WithCoverings(argParent2, CallSiblings + 1),
                          argSprint)
        IN  \/ GreaterThan(raised, result)
            \/ (raised = result /\ result = ScoreCeiling)

C5_Witness ==
    /\ Returned
    /\ CallSiblings = 8
    /\ result.kind = "finite"
    /\ GreaterThan(evaluateBreedingPair(WithCoverings(argParent1, 9),
                                        WithCoverings(argParent2, 9),
                                        argSprint), result)

\* C6: with siblings = 1 the score is the uniform mean 511.5 of the ranks
\* 0..1023, also for the all-maximum (fully tied) pair.
C6_SingleOffspringMean ==
    (Returned /\ WellFormedCoverings /\ CallSiblings = 1)
        => result = ScoreHalfway

C6_Witness ==
    /\ Returned
    /\ argParent1.coveringsLeft = 1
    /\ argParent2.coveringsLeft = 1
    /\ BothFullyLocked
    /\ result = ScoreHalfway

\* C7 (as claimed): when every allele of both parents is the minimum 1, the
\* expected rank is 0 for every siblings value >= 1.
C7_DegenerateFloorScoresZero ==
    (Returned /\ WellFormedCoverings /\ BothAtMinimum /\ CallSiblings >= 1)
        => result = ScoreZero

\* C8 (as claimed): a negative coveringsLeft on either parent is clamped to
\* 0, so the call returns exactly 0, never a negative or non-numeric score.
C8_NegativeCoveringsClamped ==
    (/\ Returned
     /\ (argParent1.coveringsLeft < 0 \/ argParent2.coveringsLeft < 0))
        => result = ScoreZero

\* C18: for well-formed candidates the returned expected rank is a number
\* within 0..1023, and it is strictly greater than 0 (and, being at most
\* 1023, strictly less than 1024) whenever both parents have at least one
\* covering left, in both modes.
C18_RankWithinBounds ==
    (Returned /\ WellFormedCoverings) =>
        /\ result.kind = "finite"
        /\ ~LimbsLess(result.limbs, ScoreZero.limbs)
        /\ ~LimbsLess(ScoreCeiling.limbs, result.limbs)
        /\ (argParent1.coveringsLeft >= 1 /\ argParent2.coveringsLeft >= 1)
              => LimbsLess(ScoreZero.limbs, result.limbs)

C18_Witness ==
    /\ Returned
    /\ argSprint
    /\ argParent1.coveringsLeft = 5
    /\ argParent2.coveringsLeft = 3
    /\ result.kind = "finite"
    /\ LimbsLess(ScoreHalfway.limbs, result.limbs)
    /\ LimbsLess(result.limbs, ScoreCeiling.limbs)

(***************************************************************************)
(* Properties of the genotype space (SpecGeno)                             *)
(***************************************************************************)
\* the allele of a parent for stat number i (1 maxSpeed, 2 acceleration,
\* 3 endurance, 4 stamina, 5 cunning); side 0 is the father allele, side 1
\* the mother allele
AlleleOf(parent, i, side) ==
    CASE i = 1 -> (IF side = 0 THEN parent.fatherMaxSpeed
                               ELSE parent.motherMaxSpeed)
      [] i = 2 -> (IF side = 0 THEN parent.fatherAcceleration
                               ELSE parent.motherAcceleration)
      [] i = 3 -> (IF side = 0 THEN parent.fatherEndurance
                               ELSE parent.motherEndurance)
      [] i = 4 -> (IF side = 0 THEN parent.fatherStamina
                               ELSE parent.motherStamina)
      [] i = 5 -> (IF side = 0 THEN parent.fatherCunning
                               ELSE parent.motherCunning)

\* number of ways of choosing one allele of parent 1 and one of parent 2
\* for stat i that give the pair pr
ChoicesGiving(i, pr) ==
    Cardinality({w \in {0, 1} \X {0, 1} :
                    <<AlleleOf(argParent1, i, w[1]),
                      AlleleOf(argParent2, i, w[2])>> = pr})

\* number of elements of the sequence seq equal to g
Occurrences(seq, g) == Cardinality({k \in 1..Len(seq) : seq[k] = g})

\* C9: the genotype space has exactly 1024 elements, duplicates counted: a
\* genotype occurs as many times as there are choices, independently per
\* stat, of one allele of parent 1 and one allele of parent 2 that give it.
C9_GenotypeSpaceSize ==
    Returned =>
        /\ Len(allCombos) = 1024
        /\ Len(children) = 1024
        /\ \A g \in {allCombos[k] : k \in 1..Len(allCombos)} :
               /\ Len(g.stats) = 5
               /\ Occurrences(allCombos, g)
                    = ChoicesGiving(1, g.stats[1]) * ChoicesGiving(2, g.stats[2])
                        * ChoicesGiving(3, g.stats[3]) * ChoicesGiving(4, g.stats[4])
                        * ChoicesGiving(5, g.stats[5])

\* a pair with four distinct options in every stat: 1024 distinct genotypes
C9_Witness ==
    /\ Returned
    /\ argParent1.fatherMaxSpeed = 5 /\ argParent1.motherMaxSpeed = 4
    /\ argParent2.fatherAcceleration = 3 /\ argParent2.motherAcceleration = 4
    /\ Len(allCombos) = 1024
    /\ allCombos[1] # allCombos[1024]

\* the genotype that the lexicographic enumeration puts at position k
\* (1-based): the base-4 digits of k - 1, first stat most significant,
\* select per stat the option (p1 father, p2 father), (p1 father, p2 mother),
\* (p1 mother, p2 father), (p1 mother, p2 mother)
Pow4(e) == CASE e = 0 -> 1 [] e = 1 -> 4 [] e = 2 -> 16 [] e = 3 -> 64 [] e = 4 -> 256

LexGenotype(k) ==
    [i \in 1..5 |->
        LET o == ((k - 1) \div Pow4(5 - i)) % 4
        IN  <<AlleleOf(argParent1, i, o \div 2), AlleleOf(argParent2, i, o % 2)>>]

\* C10: the enumeration order is lexicographic, first stat varying slowest,
\* the four options per stat in the order (p1 father, p2 father),
\* (p1 father, p2 mother), (p1 mother, p2 father), (p1 mother, p2 mother).
C10_LexicographicOrder ==
    Returned =>
        \A k \in 1..1024 :
            /\ k <= Len(allCombos)
            /\ allCombos[k].stats = LexGenotype(k)

C10_Witness ==
    /\ Returned
    /\ argParent1.fatherCunning = 2 /\ argParent1.motherCunning = 3
    /\ argParent2.fatherCunning = 2 /\ argParent2.motherCunning = 3
    /\ allCombos[2].stats[5] = <<2, 3>>
    /\ allCombos[3].stats[5] = <<3, 2>>
    /\ allCombos[1024].stats[1] = <<4, 4>>

\* the candidate whose parent data is parent (convertToParentDataParsed
\* read backwards)
CandidateOf(parent) ==
    Chocobo(0, parent.gender, NoGrade,
            Stats(parent.fatherMaxSpeed, parent.fatherAcceleration,
                  parent.fatherEndurance, parent.fatherStamina,
                  parent.fatherCunning, parent.motherMaxSpeed,
                  parent.motherAcceleration, parent.motherEndurance,
                  parent.motherStamina, parent.motherCunning),
            parent.coveringsLeft, toISOString(0), toISOString(0))

\* C13 (as claimed): there is one maximum stat value: the value the ranking
\* tests alleles against is the upper bound of StatValueSchema and the value
\* of countLockedStats, so for two candidates with every allele at the
\* validated maximum every ranked genotype (each is the candidates' own
\* genotype) has five stats with a maximum allele and five locked stats, as
\* many as countLockedStats counts.
C13_SingleMaximumStat ==
    (/\ Returned
     /\ AllelesOf(argParent1) = {SchemaMaxStat}
     /\ AllelesOf(argParent2) = {SchemaMaxStat})
        => /\ RankedMaxStat = SchemaMaxStat
           /\ RankedMaxStat = LockedStatValue
           /\ \A k \in 1..Len(children) :
                  /\ countWithFive(children[k].stats) = NumStats
                  /\ countLocked(children[k].stats) = NumStats
                  /\ countLocked(children[k].stats)
                        = countLockedStats(CandidateOf(argParent1))

(***************************************************************************)
(* Properties of the optimal pair search (SpecSearch)                      *)
(***************************************************************************)
StatsOf(chocobo) ==
    {chocobo.stats.fatherMaxSpeed, chocobo.stats.fatherAcceleration,
     chocobo.stats.fatherEndurance, chocobo.stats.fatherStamina,
     chocobo.stats.fatherCunning, chocobo.stats.motherMaxSpeed,
     chocobo.stats.motherAcceleration, chocobo.stats.motherEndurance,
     chocobo.stats.motherStamina, chocobo.stats.motherCunning}

AllMaximum(chocobo) == \E mx \in MaxStatValues : StatsOf(chocobo) = {mx}

\* C2 (as claimed): in a collection with three males and three females in
\* which exactly one cross pair has all-maximum stats on both sides, the
\* search stores that pair with score equal to the ceiling value, whatever
\* the order of the collection.
C2_SearchStoresPerfectPair ==
    optimalPair # <<>> =>
        /\ AllMaximum(optimalPair[1].father)
        /\ AllMaximum(optimalPair[1].mother)
        /\ optimalPair[1].score = ScoreCeiling

(***************************************************************************)
(* Properties of the comparator (SpecCompare)                              *)
(***************************************************************************)
\* C11: for each mode the comparator is a strict weak ordering:
\* compare(a, a) = 0, compare(a, b) < 0 iff compare(b, a) > 0, "better" is
\* transitive and "equal" (result 0) is transitive.
C11_StrictWeakOrdering ==
    Returned =>
        /\ createChocoboComparator(argSprint, fnArgs.a, fnArgs.a) = 0
        /\ (fnResult < 0) <=>
               (createChocoboComparator(argSprint, fnArgs.b, fnArgs.a) > 0)
        /\ \A c \in GenotypePool :
               /\ (/\ fnResult < 0
                   /\ createChocoboComparator(argSprint, fnArgs.b, c) < 0)
                      => createChocoboComparator(argSprint, fnArgs.a, c) < 0
               /\ (/\ fnResult = 0
                   /\ createChocoboComparator(argSprint, fnArgs.b, c) = 0)
                      => createChocoboComparator(argSprint, fnArgs.a, c) = 0

\* three different genotypes that compare equal
C11_Witness ==
    /\ Returned
    /\ fnArgs.a # fnArgs.b
    /\ fnResult = 0
    /\ \E c \in GenotypePool \ {fnArgs.a, fnArgs.b} :
           /\ createChocoboComparator(argSprint, fnArgs.b, c) = 0
           /\ createChocoboComparator(argSprint, fnArgs.a, c) = 0

\* the four ranking criteria of a genotype, written from their description:
\* stats holding a maximum allele, locked stats, twice the formula and twice
\* the tie-break average (stats 1 maxSpeed, 2 acceleration, 3 endurance,
\* 4 stamina, 5 cunning)
RankKey(g, sprint) ==
    LET sum(i) == g.stats[i][1] + g.stats[i][2]
    IN  << Cardinality({i \in 1..5 : 5 \in {g.stats[i][1], g.stats[i][2]}}),
           Cardinality({i \in 1..5 : {g.stats[i][1], g.stats[i][2]} = {5}}),
           IF sprint THEN sum(4) + sum(3) - sum(5) - sum(2)
                     ELSE sum(1) + sum(4) - sum(5) - sum(2),
           IF sprint THEN sum(1) ELSE sum(3) >>

\* lexicographic "less than" on two keys of four numbers
KeyLess(k1, k2) ==
    \E i \in 1..4 : /\ k1[i] < k2[i]
                    /\ \A j \in 1..(i - 1) : k1[j] = k2[j]

\* C12: the comparator orders two genotypes exactly as the lexicographic
\* comparison of (stats with a maximum allele, locked stats, formula,
\* tie-break) of the mode, and reports equality exactly when the four
\* components are equal.
C12_LexicographicCriteria ==
    Returned =>
        LET keyA == RankKey(fnArgs.a, argSprint)
            keyB == RankKey(fnArgs.b, argSprint)
        IN  /\ (fnResult < 0) <=> KeyLess(keyA, keyB)
            /\ (fnResult > 0) <=> KeyLess(keyB, keyA)
            /\ (fnResult = 0) <=> (keyA = keyB)

\* a has more stats with a maximum allele, b more locked stats: a is better
C12_Witness ==
    /\ Returned
    /\ RankKey(fnArgs.a, argSprint)[1] > RankKey(fnArgs.b, argSprint)[1]
    /\ RankKey(fnArgs.a, argSprint)[2] < RankKey(fnArgs.b, argSprint)[2]
    /\ fnResult > 0

(***************************************************************************)
(* Properties of the optimal pair search (SpecPairing)                     *)
(***************************************************************************)
SearchRan == pc = "findOptimalBreedingPair"

\* the males and the females the search sees, in collection order
VisibleMales == SelectSeq(getFilteredChocobos, LAMBDA c : c.gender = "male")
VisibleFemales == SelectSeq(getFilteredChocobos, LAMBDA c : c.gender = "female")

\* the score of the pair (male number m, female number f) in the current mode
PairScore(m, f) ==
    evaluateBreedingPair(convertToParentDataParsed(VisibleMales[m]),
                         convertToParentDataParsed(VisibleFemales[f]),
                         superSprint)

\* C14: if the (filtered) collection has no male or no female, the search
\* leaves optimalPair null.
C14_EmptyPartitionGivesNull ==
    (SearchRan /\ (Len(VisibleMales) = 0 \/ Len(VisibleFemales) = 0))
        => optimalPair = <<>>

\* the collection has males and females, the filter on the ability hides
\* all males
C14_Witness ==
    /\ SearchRan
    /\ \E k \in 1..Len(statFilters) : statFilters[k].type = "ability"
    /\ \E k \in 1..Len(chocobos) : chocobos[k].gender = "male"
    /\ Len(VisibleMales) = 0
    /\ Len(VisibleFemales) > 0
    /\ optimalPair = <<>>

\* C15: with at least one male and one female the search stores a pair of a
\* visible male and a visible female whose score is the score of the pair
\* and the maximum over all cross pairs, and it is the first pair with that
\* score in the order males (outer), females (inner).
C15_FirstMaximalPair ==
    (SearchRan /\ Len(VisibleMales) > 0 /\ Len(VisibleFemales) > 0) =>
        /\ optimalPair # <<>>
        /\ \E mi \in 1..Len(VisibleMales), fi \in 1..Len(VisibleFemales) :
              /\ optimalPair[1].father = VisibleMales[mi]
              /\ optimalPair[1].mother = VisibleFemales[fi]
              /\ optimalPair[1].score = PairScore(mi, fi)
              /\ \A m \in 1..Len(VisibleMales), f \in 1..Len(VisibleFemales) :
                    /\ ~GreaterThan(PairScore(m, f), PairScore(mi, fi))
                    /\ (m < mi \/ (m = mi /\ f < fi))
                          => PairScore(m, f) # PairScore(mi, fi)

\* two pairs attain the maximum, a third scores less; the first is stored
C15_Witness ==
    /\ SearchRan
    /\ optimalPair # <<>>
    /\ \E m \in 1..Len(VisibleMales), f \in 1..Len(VisibleFemales) :
          /\ VisibleMales[m] # optimalPair[1].father
          /\ PairScore(m, f) = optimalPair[1].score
    /\ \E m \in 1..Len(VisibleMales), f \in 1..Len(VisibleFemales) :
          GreaterThan(optimalPair[1].score, PairScore(m, f))

\* C16: a step of findOptimalBreedingPair changes nothing but optimalPair:
\* the collection, the filters, the sort settings, the mode flag and the
\* edit-mode state are unchanged.
C16_SearchMutatesNothing ==
    [][(pc' = "findOptimalBreedingPair")
          => UNCHANGED <<chocobos, statFilters, sortVars, superSprint,
                         editVars>>]_vars

\* the search has stored a pair while a filter hides part of the collection
C16_Witness ==
    /\ SearchRan
    /\ optimalPair # <<>>
    /\ Len(statFilters) > 0
    /\ Len(getFilteredChocobos) < Len(chocobos)
    /\ sortOrder = "asc"
    /\ superSprint

\* C17: a pair with 0 attempts on a parent scores 0, and the search stores
\* such a pair only when every cross pair scores 0.
C17_ZeroAttemptsNeverWin ==
    SearchRan =>
        /\ \A m \in 1..Len(VisibleMales), f \in 1..Len(VisibleFemales) :
              (\/ VisibleMales[m].coveringsLeft = 0
               \/ VisibleFemales[f].coveringsLeft = 0)
                  => PairScore(m, f) = ScoreZero
        /\ (/\ optimalPair # <<>>
            /\ (\/ optimalPair[1].father.coveringsLeft = 0
                \/ optimalPair[1].mother.coveringsLeft = 0))
               => /\ optimalPair[1].score = ScoreZero
                  /\ \A m \in 1..Len(VisibleMales),
                        f \in 1..Len(VisibleFemales) :
                        PairScore(m, f) = ScoreZero

\* every pair has a parent with 0 attempts, and the first pair is stored
C17_Witness ==
    /\ SearchRan
    /\ optimalPair # <<>>
    /\ optimalPair[1].father.coveringsLeft = 0
    /\ optimalPair[1].mother.coveringsLeft > 0
    /\ optimalPair[1].score = ScoreZero
    /\ Len(VisibleMales) + Len(VisibleFemales) > 2


(***************************************************************************)
(* Properties of StatValueSchema (SpecParse)                               *)
(***************************************************************************)
\* C19: StatValueSchema accepts exactly the integers 1 through 5: parsing
\* any of 1, 2, 3, 4, 5 returns that value, and parsing an integer below 1
\* or above 5 throws.
C19_AcceptsOneThroughFive ==
    (Returned /\ IsInt(fnArgs)) =>
        IF (fnArgs.twice \div 2) \in MinStat..RankedMaxStat
        THEN fnResult = [outcome |-> "returns", value |-> fnArgs.twice \div 2]
        ELSE fnResult = [outcome |-> "throws"]

(***************************************************************************)
(* Properties of evaluateStatPotential (SpecPotential)                     *)
(***************************************************************************)
\* a stat value with 4 read as 5
FourAsFive(v) == IF v = LockedStatValue THEN RankedMaxStat ELSE v

\* C20: evaluateStatPotential treats a 4 as a 5: when all four grandparent
\* values are 4 or 5 it returns hasPerfect = true with best = 5 and
\* worst = 5, and in every input each 4 contributes as 5 to best, worst and
\* average.
C20_FourTreatedAsFive ==
    Returned =>
        LET normalized == <<FourAsFive(fnArgs.maleFatherStat),
                            FourAsFive(fnArgs.maleMotherStat),
                            FourAsFive(fnArgs.femaleFatherStat),
                            FourAsFive(fnArgs.femaleMotherStat)>>
        IN  /\ fnResult.best = MathMax(normalized)
            /\ fnResult.worst = MathMin(normalized)
            /\ fnResult.average.sum * Len(normalized)
                 = SumValues(normalized) * fnResult.average.length
            /\ (\A i \in 1..Len(normalized) : normalized[i] = RankedMaxStat)
                 => /\ fnResult.hasPerfect
                    /\ fnResult.best = RankedMaxStat
                    /\ fnResult.worst = RankedMaxStat

(***************************************************************************)
(* Properties of calculateBreedingScore (SpecScore)                        *)
(***************************************************************************)
\* the twenty stat strings of a pair
ScoreStrings(male, female) ==
    UNION {{p.fatherMaxSpeed, p.motherMaxSpeed, p.fatherAcceleration,
            p.motherAcceleration, p.fatherEndurance, p.motherEndurance,
            p.fatherStamina, p.motherStamina, p.fatherCunning,
            p.motherCunning} : p \in {male, female}}

\* C21: calculateBreedingScore gives its highest score to the perfect pair:
\* a pair whose twenty grandparent stats are all 5 scores exactly 500
\* (5 stats of 100 points), and no pair with stats in 1..5 scores more.
C21_PerfectPairScoresHighest ==
    Returned =>
        /\ ScoreStrings(fnArgs.male, fnArgs.female) = {"5"}
             => fnResult.twice = 2 * (NumStats * PerfectStatScore)
        /\ fnResult.twice <= 2 * (NumStats * PerfectStatScore)

(***************************************************************************)
(* The returned rank as a function of siblings alone (SpecEval)            *)
(***************************************************************************)
RECURSIVE SumCdfPowers(_, _, _)
\* sum of (n / 1024)^s for n in lo..hi
SumCdfPowers(lo, hi, s) ==
    IF lo = hi THEN PowCdf(lo, s)
    ELSE LET mid == (lo + hi) \div 2
         IN  AddLimbs(SumCdfPowers(lo, mid, s), SumCdfPowers(mid + 1, hi, s))

\* sum over i in 0..1023 of i * (((i+1)/1024)^s - (i/1024)^s), summed by
\* parts: 1023 * (1024/1024)^s minus the sum of (i/1024)^s for i in 1..1023
SummedByParts ==
    [s \in 0..MaxSiblings |->
        SubLimbs(MulSmall(PowCdf(TotalSpace, s), TotalSpace - 1),
                 SumCdfPowers(1, TotalSpace - 1, s))]

\* C23: the returned value is determined by
\* siblings = min(9, parent1.coveringsLeft, parent2.coveringsLeft) alone: it
\* is the sum over i in 0..1023 of i * (((i+1)/1024)^siblings -
\* (i/1024)^siblings) (NaN when siblings is negative), whatever the twenty
\* stat values and the superSprint flag.
C23_ScoreDependsOnSiblingsOnly ==
    Returned =>
        LET siblings == Min2(MaxSiblings, Min2(argParent1.coveringsLeft,
                                                argParent2.coveringsLeft))
        IN  result = IF siblings < 0 THEN NaN
                     ELSE Finite(SummedByParts[siblings])

C23_Witness ==
    /\ Returned
    /\ argSprint
    /\ Min2(argParent1.coveringsLeft, argParent2.coveringsLeft) = 3
    /\ AllelesOf(argParent1) = {RankedMaxStat}
    /\ AllelesOf(argParent2) = {MinStat}
    /\ result = Finite(SummedByParts[3])

(***************************************************************************)
(* Properties of the store handlers (SpecStore)                            *)
(***************************************************************************)
\* C24: whenever optimalPair is non-null, optimalPair.score equals
\* evaluateBreedingPair applied to the father and mother records held in
\* optimalPair under the current mode, also after breedOptimalPair has
\* decremented the pair's coveringsLeft.
C24_PairScoreIsCurrent ==
    optimalPair # <<>> =>
        optimalPair[1].score
            = evaluateBreedingPair(
                  convertToParentDataParsed(optimalPair[1].father),
                  convertToParentDataParsed(optimalPair[1].mother),
                  superSprint)

\* the ids of the chocobos of a collection
CollectionIds(list) == {list[k].id : k \in 1..Len(list)}

\* C25: removeChocobo(id) sets optimalPair to null exactly when id is the id
\* of the pair's father or mother and otherwise leaves it unchanged; after
\* any sequence of addChocobo, removeChocobo, updateChocoboStats,
\* updateChocobo, findOptimalBreedingPair, clearOptimalPair,
\* breedOptimalPair and importData a non-null optimalPair names two chocobos
\* that are in the collection.
C25_PairNamesPresentChocobos ==
    /\ [](optimalPair # <<>> =>
              /\ optimalPair[1].father.id \in CollectionIds(chocobos)
              /\ optimalPair[1].mother.id \in CollectionIds(chocobos))
    /\ [][(pc' = "removeChocobo") =>
              LET removed == CollectionIds(chocobos) \ CollectionIds(chocobos')
              IN  optimalPair' =
                      IF /\ optimalPair # <<>>
                         /\ \/ optimalPair[1].father.id \in removed
                            \/ optimalPair[1].mother.id \in removed
                      THEN <<>>
                      ELSE optimalPair]_vars

C25_Witness ==
    /\ pc = "removeChocobo"
    /\ optimalPair # <<>>
    /\ Len(chocobos) >= 2
    /\ optimalPair[1].father.coveringsLeft < DefaultCoveringsLeft

\* C26: breedOptimalPair with a non-null optimalPair lowers coveringsLeft of
\* exactly the father and the mother in the collection by 1 but never below
\* 0, leaves every other chocobo unchanged and puts the updated collection
\* records into optimalPair; with optimalPair null it changes nothing.
\* coveringsLeft of every chocobo stays within 0..10.  (Of the parents'
\* other fields only updatedAt, the time stamp, may change.)
C26_BreedDecrementsParentsOnly ==
    /\ [](\A k \in 1..Len(chocobos) :
              chocobos[k].coveringsLeft \in MinCoveringsLeft..MaxCoveringsLeft)
    /\ [][(pc' = "breedOptimalPair") =>
              IF optimalPair = <<>>
              THEN UNCHANGED storeVars
              ELSE LET parentIds == {optimalPair[1].father.id,
                                     optimalPair[1].mother.id}
                   IN  /\ Len(chocobos') = Len(chocobos)
                       /\ \A k \in 1..Len(chocobos) :
                              chocobos'[k] =
                                  IF chocobos[k].id \in parentIds
                                  THEN [chocobos[k] EXCEPT
                                           !.coveringsLeft =
                                               IF @ >= 1 THEN @ - 1 ELSE 0,
                                           !.updatedAt = chocobos'[k].updatedAt]
                                  ELSE chocobos[k]
                       /\ optimalPair' # <<>>
                       /\ \E f, m \in 1..Len(chocobos) :
                              /\ chocobos[f].id = optimalPair[1].father.id
                              /\ chocobos[m].id = optimalPair[1].mother.id
                              /\ optimalPair'[1].father = chocobos'[f]
                              /\ optimalPair'[1].mother = chocobos'[m]
                       /\ optimalPair'[1].score = optimalPair[1].score
                       /\ UNCHANGED <<statFilters, superSprint, sortVars,
                                      editVars>>]_vars

C26_Witness ==
    /\ pc = "breedOptimalPair"
    /\ optimalPair # <<>>
    /\ optimalPair[1].father.coveringsLeft = 0
    /\ optimalPair[1].mother.coveringsLeft = DefaultCoveringsLeft - 1
    /\ \E k \in 1..Len(chocobos) :
           /\ chocobos[k].id # optimalPair[1].father.id
           /\ chocobos[k].id # optimalPair[1].mother.id

(***************************************************************************)
(* Properties of exportData and importData (SpecImport)                    *)
(***************************************************************************)
\* every chocobo of the collection passes ChocoboSchema
AllSchemaValid ==
    \A k \in 1..Len(chocobos) : ChocoboValid(ChocoboJson(chocobos[k]))

\* C22: for a store state whose chocobos are all schema-valid,
\* importData(exportData()) succeeds and leaves the collection equal to what
\* it was (same chocobos, same order, same field values), with optimalPair
\* reset to null.
C22_ExportImportRoundTrip ==
    [][(pc' = "importData" /\ fnArgs' = ExportText(clock) /\ AllSchemaValid) =>
           /\ fnResult'.outcome = "returns"
           /\ chocobos' = chocobos
           /\ optimalPair' = <<>>]_vars

C22_Witness ==
    /\ pc = "importData"
    /\ fnArgs = ExportText(clock)
    /\ fnResult.outcome = "returns"
    /\ Len(chocobos) > MaxImportChocobos
    /\ \E k \in 1..Len(chocobos) : chocobos[k].grade # NoGrade
    /\ \E k \in 1..Len(chocobos) : chocobos[k].grade = NoGrade
    /\ \E k \in 1..Len(chocobos) :
           /\ chocobos[k].coveringsLeft = MaxCoveringsLeft
           /\ chocobos[k].name # Undefined
           /\ chocobos[k].ability # Undefined

\* the text is no JSON, or its content fails the export schema (which
\* includes the schema of every chocobo)
FailsValidation(jsonString) ==
    \/ jsonString.syntax # "json"
    \/ validateExport(jsonString.data).outcome = "throws"

\* C27: importData of text that is not valid JSON, or whose content fails
\* export-schema or per-chocobo validation, throws an error whose message
\* starts with "Failed to import data:" and leaves the store state (the
\* collection and optimalPair) exactly as it was.
C27_FailedImportChangesNothing ==
    [][(pc' = "importData" /\ FailsValidation(fnArgs')) =>
           /\ fnResult'.outcome = "throws"
           /\ fnResult'.message.prefix = "Failed to import data: "
           /\ UNCHANGED storeVars]_vars

C27_Witness ==
    /\ pc = "importData"
    /\ fnArgs.syntax = "json"
    /\ "chocobos" \in DOMAIN fnArgs.data
    /\ fnResult.outcome = "throws"
    /\ optimalPair # <<>>
    /\ Len(chocobos) > MaxImportChocobos

\* the chocobos of an export, each stat above 4 replaced by 4
StatsCapped(list) ==
    [k \in 1..Len(list) |->
        [list[k] EXCEPT !.stats =
            [s \in DOMAIN list[k].stats |->
                IF list[k].stats[s] > SchemaMaxStat THEN SchemaMaxStat
                ELSE list[k].stats[s]]]]

\* a legacy export: some stat is above 4, and the export is valid once the
\* stats are capped
IsLegacyExport(jsonString) ==
    /\ jsonString.syntax = "json"
    /\ {"version", "exportedAt", "chocobos"} \subseteq DOMAIN jsonString.data
    /\ StatsCapped(jsonString.data.chocobos) # jsonString.data.chocobos
    /\ validateExport([jsonString.data EXCEPT
                           !.chocobos = StatsCapped(@)]).outcome = "returns"

\* C28: importData accepts a legacy export whose chocobos carry stat values
\* above 4: it caps each such stat to 4, stores the capped collection and
\* returns true; it returns false when no stat needed capping.
C28_LegacyImportIsCapped ==
    pc = "importData" =>
        /\ IsLegacyExport(fnArgs) =>
               /\ fnResult = [outcome |-> "returns", value |-> TRUE]
               /\ chocobos = [k \in 1..Len(fnArgs.data.chocobos) |->
                                 ChocoboParsed(
                                     StatsCapped(fnArgs.data.chocobos)[k])]
        /\ ~FailsValidation(fnArgs) =>
               fnResult = [outcome |-> "returns", value |-> FALSE]

(***************************************************************************)
(* Properties of edit mode (SpecEdit)                                      *)
(***************************************************************************)
\* the collection members whose ids are in the frozen id list
FrozenMembers ==
    SelectSeq(chocobos, LAMBDA c : c.id \in SeqRange(frozenFilteredIds))

\* C29: while edit mode is on, getFilteredChocobos returns exactly the
\* collection members whose ids are in the frozen id list, whatever stat
\* edits and filter additions or removals happen, and the frozen id list
\* takes in every chocobo added during edit mode.
C29_EditModeShowsFrozenList ==
    /\ [](isEditMode => getFilteredChocobos = FrozenMembers)
    /\ [][(isEditMode /\ pc' = "addChocobo") =>
              /\ chocobos'[Len(chocobos')].id \in SeqRange(frozenFilteredIds')
              /\ SeqRange(frozenFilteredIds) \subseteq SeqRange(frozenFilteredIds')]_vars

FilterSortHandlers ==
    {"addStatFilter", "removeStatFilter", "clearAllFilters", "setSortType",
     "setSortOrder"}

\* C30: in every reachable state, if isEditMode is false then the three
\* frozen lists are empty and pendingChangesWhileEditing is false; the flag
\* is false when edit mode is entered and becomes true only by a filter or
\* sort handler running in edit mode.
C30_EditStateClearedOutsideEditMode ==
    /\ [](~isEditMode =>
              /\ frozenMaleSortOrder = <<>>
              /\ frozenFemaleSortOrder = <<>>
              /\ frozenFilteredIds = <<>>
              /\ ~pendingChangesWhileEditing)
    /\ [][(~isEditMode /\ isEditMode') => ~pendingChangesWhileEditing']_vars
    /\ [][(~pendingChangesWhileEditing /\ pendingChangesWhileEditing') =>
              (isEditMode /\ pc' \in FilterSortHandlers)]_vars

C30_Witness ==
    /\ isEditMode
    /\ pendingChangesWhileEditing
    /\ pc = "setSortType"
    /\ Len(frozenFilteredIds) > MaxEditChocobos
    /\ Len(frozenMaleSortOrder) = 1

=============================================================================
